---- MODULE Spec2Model ----
(***************************************************************************)
(* The HTML parser of Racoon (src/src/html/grammar): the input cursor, the *)
(* tokenizer state machine and the tree builder it calls back into.        *)
(*                                                                         *)
(* One behaviour is one call of HtmlParser::parse.  Every step of the      *)
(* behaviour is one iteration of the loop of parse, that is one call of    *)
(* Tokenizer::step together with every token it emits and everything the   *)
(* tree builder does with those tokens.                                    *)
(*                                                                         *)
(* Code points are strings.  Punctuation and digits are themselves; the    *)
(* letters of attribute names are the single letters of AttrLetters; a     *)
(* tag name is written as one item of TagItems, which stands for the run   *)
(* of ASCII letters it spells (the tokenizer treats every letter of a run  *)
(* alike, so the run is consumed in one step instead of one per letter).   *)
(*                                                                         *)
(* A call that may fail takes the builder (or the machine) as a parameter  *)
(* and returns it unchanged once its res is not "Ok", as `?` does.  The    *)
(* tokens a state function emits are listed in the field out and handed    *)
(* to Tokenizer::emit, in order, when the function returns.                *)
(***************************************************************************)
EXTENDS Integers, Sequences, FiniteSets, TLC

\* ------------------------------------------------------------------ bounds
\* number of words of Vocabulary a freely chosen text is made of
MaxWords == 3
\* number of iterations counted of a loop that never ends
MaxCounted == 4
\* number of tokens handed to the tree builder when it is driven alone
MaxTokens == 3

\* ------------------------------------------------------- option encodings
None == "None"
NoNode == 0

\* -------------------------------------------------------------- alphabet
AttrLetters == {"a", "b"}
TagItems == {"html", "head", "body", "title", "script", "style", "textarea",
             "template", "meta", "br", "p", "div", "span", "i", "x", "li", "h1",
             "form", "button", "svg"}
\* the tokenizer's whitespace, and the tree builder's (with CARRIAGE_RETURN)
Whitespace == {"\t", "\n", "\f", " "}
ParserWhitespace == Whitespace \cup {"\r"}

\* single lowercase letters that spell keywords and reference names
Letters == {"c", "d", "e", "i", "l", "m", "n", "o", "s", "t", "u", "y"}
UppercaseLetters ==
  {"A", "B", "C", "D", "E", "I", "L", "M", "O", "P", "S", "T", "U", "Y"}

is_ascii_alphabetic(c) ==
  c \in AttrLetters \cup TagItems \cup Letters \cup UppercaseLetters

\* char::to_digit(10)
DigitValue ==
  [d \in {"0", "1", "2", "3", "4", "5", "6", "7", "8", "9"} |->
     IF d = "0" THEN 0 ELSE IF d = "1" THEN 1 ELSE IF d = "2" THEN 2
     ELSE IF d = "3" THEN 3 ELSE IF d = "4" THEN 4 ELSE IF d = "5" THEN 5
     ELSE IF d = "6" THEN 6 ELSE IF d = "7" THEN 7 ELSE IF d = "8" THEN 8
     ELSE 9]

is_ascii_digit(c) == c \in DOMAIN DigitValue
is_ascii_alphanumeric(c) == is_ascii_alphabetic(c) \/ is_ascii_digit(c)

\* ------------------------------------------------- grammar/mod.rs tables
ELEMENT_IN_SCOPE_TYPES ==
  {"applet", "caption", "html", "table", "td", "th", "marquee", "object", "template"}

GENERATE_IMPLIED_END_TAG_TYPES ==
  {"dd", "dt", "li", "optgroup", "option", "p", "rb", "rp", "rt", "rtc"}

SPECIAL_ELEMENTS ==
  {"address", "applet", "area", "article", "aside", "base", "basefont",
   "bgsound", "blockquote", "body", "br", "button", "caption", "center",
   "col", "colgroup", "dd", "details", "dir", "div", "dl", "dt", "embed",
   "fieldset", "figcaption", "figure", "footer", "form", "frame", "frameset",
   "h1", "h2", "h3", "h4", "h5", "h6", "head", "header", "hgroup", "hr",
   "html", "iframe", "img", "input", "keygen", "li", "link", "listing",
   "main", "marquee", "menu", "meta", "nav", "noembed", "noframes",
   "noscript", "object", "ol", "p", "param", "plaintext", "pre", "script",
   "search", "section", "select", "source", "style", "summary", "table",
   "tbody", "td", "template", "textarea", "tfoot", "th", "thead", "title",
   "tr", "track", "ul", "wbr", "xmp"}

\* ---------------------------------------------------------------- tokens
\* written is history: the attribute names of the tag in the order the text
\* spells them, kept beside the attributes the tokenizer builds
TagToken(type, name) ==
  [type |-> type, tag_name |-> name, self_closing |-> FALSE,
   attributes |-> << >>, c |-> "", written |-> << >>]

Character(ch) ==
  [type |-> "Character", tag_name |-> "", self_closing |-> FALSE,
   attributes |-> << >>, c |-> ch, written |-> << >>]

EndOfFile ==
  [type |-> "EndOfFile", tag_name |-> "", self_closing |-> FALSE,
   attributes |-> << >>, c |-> "", written |-> << >>]

\* the data of a comment is kept in c
CommentToken(data) ==
  [type |-> "Comment", tag_name |-> "", self_closing |-> FALSE,
   attributes |-> << >>, c |-> data, written |-> << >>]

\* the name of a DOCTYPE is kept in tag_name; force_quirks, which nothing
\* reads, is left out
DocTypeToken(name) ==
  [type |-> "DocType", tag_name |-> name, self_closing |-> FALSE,
   attributes |-> << >>, c |-> "", written |-> << >>]

\* Option<TagToken>::None
NoToken ==
  [type |-> "None", tag_name |-> "", self_closing |-> FALSE,
   attributes |-> << >>, c |-> "", written |-> << >>]

Attribute(n, v) == [name |-> n, value |-> v]

is_start_tag(token, names) == token.type = "StartTag" /\ token.tag_name \in names
is_end_tag(token, names) == token.type = "EndTag" /\ token.tag_name \in names
is_whitespace(token) == token.type = "Character" /\ token.c \in ParserWhitespace

\* TagToken::new(tag_name) of the same type: the flag and attributes are dropped
renamed(token) == TagToken(token.type, token.tag_name)

\* NodeOrMarker: an entry of the list of active formatting elements
NodeEntry(id, token) == [node_id |-> id, token |-> token]
Marker == [node_id |-> NoNode, token |-> EndOfFile]

\* -------------------------------------------------------- Acknowledgement
Acknowledgement(closed, st) == [self_closed |-> closed, tokenizer_state |-> st]
AckNo == Acknowledgement(FALSE, None)
AckYes == Acknowledgement(TRUE, None)

\* ------------------------------------------------------ results of calls
\* res is "Ok", "Err" (an Err(HtmlParseError) propagated by ?), "Panic"
\* (todo!(), unwrap or expect on None) or "Hang" (a loop that never ends).
Ok(p) == p.res = "Ok"
Err(p) == [p EXCEPT !.res = "Err"]
Panic(p) == [p EXCEPT !.res = "Panic"]
Hang(p) == [p EXCEPT !.res = "Hang"]
Return(p, a) == [p EXCEPT !.ack = a]

\* ----------------------------------------------------------------- arena
\* written is history: for an element, the attribute names its start tag
\* spelled, in order
Node(kind, name, value) ==
  [kind |-> kind, name |-> name, value |-> value, parent |-> NoNode,
   children |-> << >>, written |-> << >>]

\* Arena::new_node: the node takes the next id.
arena_new_node(arena, node) == Append(arena, node)

Remove(seq, x) == SelectSeq(seq, LAMBDA y : y # x)

\* NodeId::append: detach the child, then make it the last child of parent.
arena_append(arena, parent, child) ==
  LET old == arena[child].parent
      a1 == IF old = NoNode THEN arena
            ELSE [arena EXCEPT ![old].children = Remove(@, child)]
  IN [a1 EXCEPT ![child].parent = parent,
                ![parent].children = Append(@, child)]

\* ---------------------------------------------------------- HtmlParser
\* HtmlParser::new followed by the first statements of parse: the Document
\* node is the first node of the arena and the root node.
root_node == 1

HtmlParser_new ==
  [insertion_mode |-> "Initial",
   template_insertion_modes |-> << >>,
   original_insertion_mode |-> None,
   open_elements |-> << >>,
   arena |-> << Node("Document", "", "") >>,
   foster_parenting |-> FALSE,
   frameset_ok |-> TRUE,
   active_formatting_elements |-> << >>,
   head_element_pointer |-> NoNode,
   form_element_pointer |-> NoNode,
   res |-> "Ok",
   ack |-> AckNo,
   \* history of the token being processed: some handler acknowledged its
   \* self-closing flag; number of trailing-solidus errors reported for it
   \* to the error handler; number of parse errors given to handle_error
   acknowledged |-> FALSE,
   solidus_errors |-> 0,
   minor_errors |-> 0,
   \* history of the last run of the adoption agency algorithm: the value
   \* of outer_loop_counter when it ended, and the number of iterations of
   \* the loop nested in the outer loop
   outer_loop_counter |-> 0,
   inner_loop_iterations |-> 0]

new_node(p, node) == [p EXCEPT !.arena = arena_new_node(@, node)]
last_id(p) == Len(p.arena)

current_node_id(p) ==
  IF p.open_elements = << >> THEN NoNode ELSE p.open_elements[Len(p.open_elements)]

name_of(p, id) == p.arena[id].name

current_node_name(p) ==
  IF current_node_id(p) = NoNode THEN None ELSE name_of(p, current_node_id(p))

open_elements_has_element(p, tag_name) ==
  \E i \in 1..Len(p.open_elements) : name_of(p, p.open_elements[i]) = tag_name

\* a variant that takes the entry at the bottom of the stack
pop_bottom(p) ==
  [p EXCEPT !.open_elements = IF @ = << >> THEN @ ELSE Tail(@)]

pop(p) ==
  [p EXCEPT !.open_elements =
     IF @ = << >> THEN @ ELSE SubSeq(@, 1, Len(@) - 1)]

\* handle_error: a minor error is logged, a fatal one is returned
handle_error(p, kind) ==
  IF kind = "MinorError" THEN [p EXCEPT !.minor_errors = @ + 1] ELSE Err(p)

\* `if current node's name is not one of names { handle_error(MinorError)? }`
error_unless_current_node_is(p, names) ==
  IF Ok(p) /\ current_node_id(p) # NoNode /\ current_node_name(p) \notin names
    THEN handle_error(p, "MinorError")
  ELSE p

\* `if the current node is not node { handle_error(MinorError)? }`
error_unless_current_node_id(p, node_id) ==
  IF Ok(p) /\ current_node_id(p) # node_id THEN handle_error(p, "MinorError")
  ELSE p

\* ensure_open_elements_has_valid_element: a minor error when no open
\* element has one of the names listed
ensure_open_elements_has_valid_element(p) ==
  IF \E i \in 1..Len(p.open_elements) :
       name_of(p, p.open_elements[i])
         \in {"dd", "dt", "li", "optgroup", "option", "p", "rb", "rp", "rt",
              "rtc", "tbody", "td", "tfoot", "th", "thead", "tr", "body", "html"}
    THEN p
  ELSE handle_error(p, "MinorError")

\* add_attribute_to_element, the attribute node being the one just made
add_attribute_to_element(p, element_id) ==
  [p EXCEPT !.arena = arena_append(@, element_id, last_id(p))]

RECURSIVE add_attributes(_, _, _)
\* the loop of insert_create_an_element_for_the_token_result over
\* add_attribute_to_element: one attribute node per attribute, in order
add_attributes(p, element_id, attributes) ==
  IF attributes = << >> THEN p
  ELSE add_attributes(
         add_attribute_to_element(
           new_node(p, Node("Attribute", Head(attributes).name,
                            Head(attributes).value)),
           element_id),
         element_id, Tail(attributes))

\* the attributes of the element that new_node just made, then the push
add_attributes_and_push(p, element_id, attributes) ==
  [add_attributes(p, element_id, attributes)
     EXCEPT !.open_elements = Append(@, element_id)]

insert_create_an_element_for_the_token_result(p, token) ==
  add_attributes_and_push(
    new_node(p, [Node("Element", token.tag_name, "")
                   EXCEPT !.written = token.written]),
    Len(p.arena) + 1, token.attributes)

\* Ok with the target, or Err when there is no current node; with foster
\* parenting the code reaches todo!()
appropriate_place_for_inserting_a_node(p) ==
  IF current_node_id(p) = NoNode THEN Err(p)
  ELSE IF p.foster_parenting THEN Panic(p)
  ELSE p

\* adjusted_insertion_location.append(element_id), the element being the
\* one insert_create_an_element_for_the_token_result just pushed
append_element_to(p, adjusted_insertion_location) ==
  [p EXCEPT !.arena = arena_append(@, adjusted_insertion_location,
                                   current_node_id(p))]

\* insert_an_html_element = insert_foreign_element(token, HTML, false);
\* the new element is the current node of the result
insert_foreign_element(p, token, only_add_to_element_stack) ==
  IF ~Ok(p) THEN p
  ELSE IF only_add_to_element_stack
    THEN insert_create_an_element_for_the_token_result(p, token)
  ELSE IF ~Ok(appropriate_place_for_inserting_a_node(p))
    THEN appropriate_place_for_inserting_a_node(p)
  ELSE append_element_to(
         insert_create_an_element_for_the_token_result(p, token),
         current_node_id(p))

insert_an_html_element(p, token) == insert_foreign_element(p, token, FALSE)

\* Arena last_child
last_child(p, id) ==
  IF p.arena[id].children = << >> THEN NoNode
  ELSE p.arena[id].children[Len(p.arena[id].children)]

\* the node new_node just made becomes the last child of parent
append_new_node_to(p, parent) ==
  [p EXCEPT !.arena = arena_append(@, parent, last_id(p))]

\* a variant that never extends a Text node
insert_new_text(p, location, prev_sibling, data) ==
  append_new_node_to(new_node(p, Node("Text", "", data)), location)

\* A Text node that is the last child of the insertion location is
\* extended, otherwise a new Text node becomes the last child.
insert_text(p, location, prev_sibling, data) ==
  IF prev_sibling # NoNode /\ p.arena[prev_sibling].kind = "Text"
    THEN [p EXCEPT !.arena[prev_sibling].value = @ \o data]
  ELSE append_new_node_to(new_node(p, Node("Text", "", data)), location)

\* The Document node has no text children: the data is dropped.
insert_character(p, data) ==
  IF ~Ok(p) THEN p
  ELSE IF ~Ok(appropriate_place_for_inserting_a_node(p))
    THEN appropriate_place_for_inserting_a_node(p)
  ELSE IF p.arena[current_node_id(p)].kind = "Document" THEN p
  ELSE insert_text(p, current_node_id(p), last_child(p, current_node_id(p)), data)

RECURSIVE scope_from(_, _, _, _)
\* the loop of has_an_element_in_the_specific_scope, from index i down
scope_from(p, i, tag_names, element_types) ==
  IF i = 0 THEN FALSE
  ELSE LET n == name_of(p, p.open_elements[i])
       IN IF n \in tag_names THEN TRUE
          ELSE IF n \in element_types THEN FALSE
          ELSE scope_from(p, i - 1, tag_names, element_types)

has_an_element_in_the_specific_scope(p, tag_names, element_types) ==
  scope_from(p, Len(p.open_elements), tag_names, element_types)

has_an_element_in_scope(p, tag_name) ==
  has_an_element_in_the_specific_scope(p, {tag_name}, ELEMENT_IN_SCOPE_TYPES)

has_an_element_in_scope_by_tag_names(p, tag_names) ==
  has_an_element_in_the_specific_scope(p, tag_names, ELEMENT_IN_SCOPE_TYPES)

has_an_element_in_button_scope(p, tag_name) ==
  has_an_element_in_the_specific_scope(p, {tag_name},
                                       ELEMENT_IN_SCOPE_TYPES \cup {"button"})

has_an_element_in_list_item_scope(p, tag_name) ==
  has_an_element_in_the_specific_scope(p, {tag_name},
                                       ELEMENT_IN_SCOPE_TYPES \cup {"ol", "ul"})

\* a variant that never stops at a matching element
pop_until_stack_is_empty(p, tag_names) == [p EXCEPT !.open_elements = << >>]

RECURSIVE pop_until_tag_name_one_of(_, _)
\* pops until an element with one of the names was popped, or the stack
\* is empty
pop_until_tag_name_one_of(p, tag_names) ==
  IF p.open_elements = << >> THEN p
  ELSE IF current_node_name(p) \in tag_names THEN pop(p)
  ELSE pop_until_tag_name_one_of(pop(p), tag_names)

pop_until_tag_name(p, tag_name) == pop_until_tag_name_one_of(p, {tag_name})

RECURSIVE pop_while_current_in(_, _)
pop_while_current_in(p, names) ==
  IF p.open_elements = << >> \/ current_node_name(p) \notin names THEN p
  ELSE pop_while_current_in(pop(p), names)

generate_implied_end_tags(p, exclude_element) ==
  pop_while_current_in(p, GENERATE_IMPLIED_END_TAG_TYPES \ {exclude_element})

generate_all_implied_end_tags_thoroughly(p) ==
  pop_while_current_in(p,
    {"caption", "colgroup", "dd", "dt", "li", "optgroup", "option", "p", "rb",
     "rp", "rt", "rtc", "tbody", "td", "tfoot", "th", "thead", "tr"})

\* when the current node is not a p element the minor error is returned
\* and nothing is popped
close_a_p_element_pop(p) ==
  IF current_node_id(p) # NoNode /\ current_node_name(p) # "p"
    THEN handle_error(p, "MinorError")
  ELSE pop_until_tag_name(p, "p")

close_a_p_element(p) ==
  IF ~Ok(p) THEN p
  ELSE close_a_p_element_pop(generate_implied_end_tags(p, "p"))

\* stop_parsing does nothing
stop_parsing(p) == p

\* ----------------------------------- list of active formatting elements
\* attributes of an element node, as (name, value) pairs in tree order
attributes_arena(p, id) ==
  LET as == SelectSeq(p.arena[id].children,
                      LAMBDA k : p.arena[k].kind = "Attribute")
  IN [i \in 1..Len(as) |-> Attribute(p.arena[as[i]].name, p.arena[as[i]].value)]

RECURSIVE map_while_node(_)
\* iter().map_while(Node): the entries before the first marker
map_while_node(list) ==
  IF list = << >> \/ Head(list) = Marker THEN << >>
  ELSE << Head(list) >> \o map_while_node(Tail(list))

Reverse(seq) == [i \in 1..Len(seq) |-> seq[Len(seq) + 1 - i]]

\* the entries after the last marker, most recent first
active_formatting_elements_until_marker(p) ==
  map_while_node(Reverse(p.active_formatting_elements))

remove_from_active_formatting_elements(p, element_id) ==
  [p EXCEPT !.active_formatting_elements =
     SelectSeq(@, LAMBDA e : e = Marker \/ e.node_id # element_id)]

\* the entries of the list given that are for elements with the tag name
\* and attributes of the element
matching_elements(p, elements_since_marker, element_id) ==
  SelectSeq(elements_since_marker,
    LAMBDA e : /\ name_of(p, e.node_id) = name_of(p, element_id)
               /\ attributes_arena(p, e.node_id) = attributes_arena(p, element_id))

\* with three matches or more the earliest is removed
remove_earliest_of(p, matching) ==
  IF Len(matching) >= 3
    THEN remove_from_active_formatting_elements(p, matching[1].node_id)
  ELSE p

\* the entries are scanned from the START of the list up to the first
\* marker
push_onto_the_list_of_active_formatting_elements(p, element_id, token) ==
  [remove_earliest_of(
     p, matching_elements(p, map_while_node(p.active_formatting_elements),
                          element_id))
     EXCEPT !.active_formatting_elements = Append(@, NodeEntry(element_id, token))]

\* position(Marker) is taken in the reversed list and used as a length of
\* the list in its own order
clear_the_list_of_active_formatting_elements_up_to_the_last_marker(p) ==
  LET afe == p.active_formatting_elements
      rev == Reverse(afe)
      hits == {i \in 1..Len(rev) : rev[i] = Marker}
      last_marker_index ==
        IF hits = {} THEN Len(afe)
        ELSE (CHOOSE i \in hits : \A j \in hits : i <= j) - 1
  IN [p EXCEPT !.active_formatting_elements = SubSeq(afe, 1, last_marker_index)]

contains(seq, x) == \E i \in 1..Len(seq) : seq[i] = x

\* position of the first entry of the list for the node, 0 when absent
afe_position(p, node_id) ==
  LET afe == p.active_formatting_elements
      hits == {i \in 1..Len(afe) : afe[i] # Marker /\ afe[i].node_id = node_id}
  IN IF hits = {} THEN 0 ELSE CHOOSE i \in hits : \A j \in hits : i <= j

\* the least member of a set of positions
first_position(S) == CHOOSE i \in S : \A j \in S : i <= j

\* the positions after entry_index that hold an entry, not a marker
entries_after(p, entry_index) ==
  {i \in (entry_index + 1)..Len(p.active_formatting_elements) :
     p.active_formatting_elements[i] # Marker}

RECURSIVE step_4_rewind(_, _, _)
RECURSIVE step_4_new_entry(_, _, _)
RECURSIVE step_7_advance(_, _)
RECURSIVE step_8_create(_, _, _)
RECURSIVE step_8_replace(_, _, _)
\* entry_index and index are positions in the list, counted from 1
step_4_rewind(p, entry, entry_index) ==
  IF afe_position(p, entry.node_id) <= 1 THEN step_8_create(p, entry, entry_index)
  ELSE step_4_new_entry(p, p.active_formatting_elements[
                             afe_position(p, entry.node_id) - 1],
                        afe_position(p, entry.node_id) - 1)

step_4_new_entry(p, new_entry, new_entry_index) ==
  IF new_entry # Marker /\ ~contains(p.open_elements, new_entry.node_id)
    THEN step_4_rewind(p, new_entry, new_entry_index)
  ELSE step_7_advance(p, new_entry_index)

\* a variant that leaves the entry of the list referring to the old element
step_8_keep_entry(p, entry, index) ==
  IF ~Ok(p) THEN p
  ELSE IF index # Len(p.active_formatting_elements)
    THEN step_7_advance(p, index)
  ELSE p

\* the rest of step_8_create, p being the builder after the insertion
step_8_replace(p, entry, index) ==
  IF ~Ok(p) THEN p
  ELSE IF index # Len(p.active_formatting_elements)
    THEN step_7_advance(
           [p EXCEPT !.active_formatting_elements[index] =
                        NodeEntry(current_node_id(p), entry.token)], index)
  ELSE [p EXCEPT !.active_formatting_elements[index] =
                   NodeEntry(current_node_id(p), entry.token)]

step_7_advance(p, entry_index) ==
  IF entries_after(p, entry_index) = {} THEN Panic(p)
  ELSE step_8_create(
         p, p.active_formatting_elements[first_position(entries_after(p, entry_index))],
         first_position(entries_after(p, entry_index)))

step_8_create(p, entry, index) ==
  step_8_replace(insert_an_html_element(p, entry.token), entry, index)

reconstruct_the_active_formatting_elements(p) ==
  IF ~Ok(p) THEN p
  ELSE IF p.active_formatting_elements = << >> THEN p
  ELSE IF p.active_formatting_elements[Len(p.active_formatting_elements)] = Marker
    THEN p
  ELSE IF contains(p.open_elements,
                   p.active_formatting_elements[
                     Len(p.active_formatting_elements)].node_id) THEN p
  ELSE step_4_rewind(p, p.active_formatting_elements[
                          Len(p.active_formatting_elements)],
                     Len(p.active_formatting_elements))

\* iter().position(..): the first position of x in seq, counted from 1
position(seq, x) == CHOOSE i \in 1..Len(seq) : seq[i] = x /\ \A j \in 1..(i - 1) : seq[j] # x

RECURSIVE step_4_3_loop(_, _)
\* the ancestor walk for a select element
step_4_3_loop(p, ancestor_id) ==
  IF ancestor_id = p.open_elements[1] THEN [p EXCEPT !.insertion_mode = "InSelect"]
  ELSE LET next_id == p.open_elements[position(p.open_elements, ancestor_id) - 1]
           ancestor == name_of(p, next_id)
       IN IF ancestor = "template" THEN [p EXCEPT !.insertion_mode = "InSelect"]
          ELSE IF ancestor = "table"
            THEN [p EXCEPT !.insertion_mode = "InSelectInTable"]
          ELSE step_4_3_loop(p, next_id)

RECURSIVE step_3_loop(_, _)
\* step_3_loop with step_4: last is set when node is the first element of
\* the stack of open elements
step_3_loop(p, node_id) ==
  LET last == (node_id = p.open_elements[1])
      n == name_of(p, node_id)
      set(mode) == [p EXCEPT !.insertion_mode = mode]
  IN IF n = "select" THEN step_4_3_loop(p, node_id)
     ELSE IF n \in {"td", "th"} /\ ~last THEN set("InCell")
     ELSE IF n = "tr" THEN set("InRow")
     ELSE IF n \in {"tbody", "thead", "tfoot"} THEN set("InTableBody")
     ELSE IF n = "caption" THEN set("InCaption")
     ELSE IF n = "colgroup" THEN set("InColumnGroup")
     ELSE IF n = "table" THEN set("InTable")
     ELSE IF n = "template"
       THEN IF p.template_insertion_modes = << >> THEN Err(p)
            ELSE set(p.template_insertion_modes[Len(p.template_insertion_modes)])
     ELSE IF n = "head" THEN set("InHead")
     ELSE IF n = "body" THEN set("InBody")
     ELSE IF n = "frameset" THEN set("InFrameset")
     ELSE IF n = "html"
       THEN IF p.head_element_pointer = NoNode THEN set("BeforeHead")
            ELSE set("AfterHead")
     ELSE IF last THEN set("InBody")
     ELSE step_3_loop(p, p.open_elements[position(p.open_elements, node_id) - 1])

reset_the_insertion_mode_appropriately(p) ==
  IF current_node_id(p) = NoNode THEN Err(p)
  ELSE step_3_loop(p, current_node_id(p))

\* the rest of both generic algorithms: the CURRENT insertion mode is
\* recorded as the original one and the tokenizer is asked for the state
switch_to_text(p, tokenizer_state) ==
  IF ~Ok(p) THEN p
  ELSE Return([p EXCEPT !.original_insertion_mode = p.insertion_mode,
                        !.insertion_mode = "Text"],
              Acknowledgement(FALSE, tokenizer_state))

generic_rcdata_element_parsing_algorithm(p, token) ==
  switch_to_text(insert_an_html_element(p, token), "RCDATA")

generic_raw_text_element_parsing_algorithm(p, token) ==
  switch_to_text(insert_an_html_element(p, token), "RAWTEXT")

\* insert_a_comment: a Comment node appended to the parent given, or to
\* the appropriate place for inserting a node
insert_a_comment(p, token, parent_override) ==
  IF parent_override # NoNode
    THEN append_new_node_to(new_node(p, Node("Comment", "", token.c)),
                            parent_override)
  ELSE IF ~Ok(appropriate_place_for_inserting_a_node(p))
    THEN appropriate_place_for_inserting_a_node(p)
  ELSE append_new_node_to(new_node(p, Node("Comment", "", token.c)),
                          current_node_id(p))

\* open_elements.pop().expect(..)
pop_expect(p) == IF p.open_elements = << >> THEN Panic(p) ELSE pop(p)

\* ------------------------------------------------------- insertion modes
RECURSIVE token_emitted(_, _)

\* the token is processed again unless a step before failed
reprocess(p, token) == IF Ok(p) THEN token_emitted(p, token) ELSE p

\* `self.frameset_ok = false` after steps that may have failed
frameset_not_ok(p) == IF Ok(p) THEN [p EXCEPT !.frameset_ok = FALSE] ELSE p

\* the value of `f(..)?; Ok(Acknowledgement::no())`
then_no(p) == IF Ok(p) THEN Return(p, AckNo) ELSE p

initial_insertion_mode(p, token) ==
  IF is_whitespace(token) THEN Return(p, AckNo)
  ELSE IF token.type = "Comment" THEN Panic(p)
  ELSE IF token.type = "DocType"
    THEN Return([p EXCEPT !.insertion_mode = "BeforeHtml"], AckNo)
  ELSE then_no(token_emitted([p EXCEPT !.insertion_mode = "BeforeHtml"], token))

\* the html element new_node just made becomes the child of the Document
\* node and the only open element
html_element_created(p) ==
  [p EXCEPT !.arena = arena_append(@, root_node, last_id(p)),
            !.open_elements = Append(@, last_id(p)),
            !.insertion_mode = "BeforeHead"]

before_html_anything_else(p, token) ==
  token_emitted(html_element_created(new_node(p, Node("Element", "html", ""))),
                token)

\* the element made for the html start tag becomes the child of the
\* Document node
html_element_inserted(p) ==
  [p EXCEPT !.arena = arena_append(@, root_node, current_node_id(p)),
            !.insertion_mode = "BeforeHead"]

before_html_insertion_mode(p, token) ==
  IF token.type = "DocType" THEN Panic(p)
  ELSE IF token.type = "Comment" THEN then_no(insert_a_comment(p, token, root_node))
  ELSE IF is_whitespace(token) THEN Return(p, AckNo)
  ELSE IF is_start_tag(token, {"html"})
    THEN Return(html_element_inserted(
                  insert_create_an_element_for_the_token_result(p, token)), AckNo)
  ELSE IF is_end_tag(token, {"head", "body", "html", "br"})
    THEN then_no(before_html_anything_else(p, renamed(token)))
  ELSE IF token.type = "EndTag" THEN Panic(p)
  ELSE then_no(before_html_anything_else(p, token))

\* the head element just inserted is the head element pointer
head_element_inserted(p) ==
  IF ~Ok(p) THEN p
  ELSE [p EXCEPT !.head_element_pointer = current_node_id(p),
                 !.insertion_mode = "InHead"]

before_head_anything_else(p, token) ==
  reprocess(head_element_inserted(
              insert_an_html_element(p, TagToken("StartTag", "head"))), token)

before_head_insertion_mode(p, token) ==
  IF is_whitespace(token) THEN Return(p, AckNo)
  ELSE IF token.type \in {"Comment", "DocType"} THEN Panic(p)
  ELSE IF is_start_tag(token, {"html"}) THEN Panic(p)
  ELSE IF is_start_tag(token, {"head"})
    THEN then_no(head_element_inserted(insert_an_html_element(p, token)))
  ELSE IF is_end_tag(token, {"head", "body", "html", "br"})
    THEN then_no(before_head_anything_else(p, token))
  ELSE IF token.type = "EndTag" THEN Panic(p)
  ELSE then_no(before_head_anything_else(p, token))

\* `self.insertion_mode = mode` after steps that may have failed
then_mode(p, mode) == IF Ok(p) THEN [p EXCEPT !.insertion_mode = mode] ELSE p

in_head_anything_else(p, token) ==
  reprocess(then_mode(pop_expect(p), "AfterHead"), token)

\* open_elements.pop().expect(..) after steps that may have failed
then_pop_expect(p) == IF Ok(p) THEN pop_expect(p) ELSE p

\* the value of `f(..)?; Ok(Acknowledgement::yes())`
then_yes(p) == IF Ok(p) THEN Return(p, AckYes) ELSE p

\* insert the element and pop it again, acknowledging the flag
insert_and_pop_yes(p, token) ==
  then_yes(then_pop_expect(insert_an_html_element(p, token)))

\* the script element, which insert_an_html_element has pushed already, is
\* pushed once more
script_element_inserted(p) ==
  IF ~Ok(p) THEN p
  ELSE Return([p EXCEPT !.open_elements = Append(@, current_node_id(p)),
                        !.original_insertion_mode = p.insertion_mode,
                        !.insertion_mode = "Text"],
              Acknowledgement(FALSE, "ScriptData"))

in_head_script(p, token) ==
  script_element_inserted(insert_an_html_element(p, token))

in_head_template_start(p, token) ==
  then_no(insert_an_html_element(
            [p EXCEPT !.active_formatting_elements = Append(@, Marker),
                      !.frameset_ok = FALSE,
                      !.insertion_mode = "InTemplate",
                      !.template_insertion_modes = Append(@, "InTemplate")],
            token))

\* the template end tag, p being the builder after all the implied end
\* tags have been generated
template_end(p) ==
  IF current_node_id(p) = NoNode THEN Err(p)
  ELSE then_no(reset_the_insertion_mode_appropriately(
                 [clear_the_list_of_active_formatting_elements_up_to_the_last_marker(
                    pop_until_tag_name(
                      error_unless_current_node_is(p, {"template"}), "template"))
                    EXCEPT !.template_insertion_modes =
                             IF @ = << >> THEN @ ELSE SubSeq(@, 1, Len(@) - 1)]))

in_head_template_end(p, token) ==
  IF ~open_elements_has_element(p, "template")
    THEN then_no(handle_error(p, "MinorError"))
  ELSE template_end(generate_all_implied_end_tags_thoroughly(p))

in_head_insertion_mode(p, token) ==
  IF is_whitespace(token) THEN then_no(insert_character(p, token.c))
  ELSE IF token.type = "Comment" THEN then_no(insert_a_comment(p, token, NoNode))
  ELSE IF token.type = "DocType" THEN Panic(p)
  ELSE IF is_start_tag(token, {"html"}) THEN Panic(p)
  ELSE IF is_start_tag(token, {"base", "basefont", "bgsound", "link"})
    THEN insert_and_pop_yes(p, token)
  ELSE IF is_start_tag(token, {"meta"}) THEN insert_and_pop_yes(p, token)
  ELSE IF is_start_tag(token, {"title"})
    THEN generic_rcdata_element_parsing_algorithm(p, token)
  ELSE IF is_start_tag(token, {"noframes", "style"})
    THEN generic_raw_text_element_parsing_algorithm(p, token)
  ELSE IF is_start_tag(token, {"noscript"}) THEN Panic(p)
  ELSE IF is_start_tag(token, {"script"}) THEN in_head_script(p, token)
  ELSE IF is_end_tag(token, {"head"})
    THEN then_no(then_mode(pop_expect(p), "AfterHead"))
  ELSE IF is_end_tag(token, {"body", "html", "br"})
    THEN then_no(in_head_anything_else(p, token))
  ELSE IF is_start_tag(token, {"template"}) THEN in_head_template_start(p, token)
  ELSE IF is_end_tag(token, {"template"}) THEN in_head_template_end(p, token)
  ELSE IF is_start_tag(token, {"head"}) THEN Panic(p)
  ELSE IF token.type = "EndTag" THEN Panic(p)
  ELSE then_no(in_head_anything_else(p, token))

after_head_anything_else(p, token) ==
  reprocess(then_mode(insert_an_html_element(p, TagToken("StartTag", "body")),
                      "InBody"), token)

after_head_insertion_mode(p, token) ==
  IF is_whitespace(token) THEN then_no(insert_character(p, token.c))
  ELSE IF token.type \in {"Comment", "DocType"} THEN Panic(p)
  ELSE IF is_start_tag(token, {"html"}) THEN Panic(p)
  ELSE IF is_start_tag(token, {"body"})
    THEN then_no(then_mode(frameset_not_ok(insert_an_html_element(p, token)),
                           "InBody"))
  ELSE IF is_start_tag(token, {"frameset"}) THEN Panic(p)
  ELSE IF is_start_tag(token, {"base", "basefont", "bgsound", "link", "meta",
                               "noframes", "script", "style", "template", "title"})
    THEN Panic(p)
  ELSE IF is_end_tag(token, {"template"}) THEN Panic(p)
  ELSE IF is_end_tag(token, {"body", "html", "br"})
    THEN then_no(after_head_anything_else(p, token))
  ELSE IF is_start_tag(token, {"head"}) THEN Panic(p)
  ELSE IF token.type = "EndTag" THEN Panic(p)
  ELSE then_no(after_head_anything_else(p, token))

\* the insertion mode goes back to the original one; expect and unwrap of
\* the original insertion mode panic on None
back_to_original_insertion_mode(p) ==
  IF ~Ok(p) THEN p
  ELSE IF p.original_insertion_mode = None THEN Panic(p)
  ELSE [p EXCEPT !.insertion_mode = p.original_insertion_mode]

text_insertion_mode(p, token) ==
  IF token.type = "Character" THEN then_no(insert_character(p, token.c))
  ELSE IF token.type = "EndOfFile" THEN Panic(p)
  ELSE IF is_end_tag(token, {"script"})
    THEN IF current_node_id(p) = NoNode THEN Err(p)
         ELSE then_no(back_to_original_insertion_mode(pop(p)))
  ELSE IF token.type = "EndTag"
    THEN then_no(back_to_original_insertion_mode(pop_expect(p)))
  ELSE Return(p, AckNo)

\* the mode is put back only when the inner call left it at the mode given
restore_insertion_mode(p, insertion_mode, before_insertion_mode) ==
  IF Ok(p) /\ p.insertion_mode = insertion_mode
    THEN [p EXCEPT !.insertion_mode = before_insertion_mode]
  ELSE p

\* using_the_rules_for returns (): the Acknowledgement of the inner call,
\* with the tokenizer state it asks for, is dropped.
using_the_rules_for(p, token, insertion_mode) ==
  restore_insertion_mode(
    token_emitted([p EXCEPT !.insertion_mode = insertion_mode], token),
    insertion_mode, p.insertion_mode)

FormattingNames ==
  {"a", "b", "big", "code", "em", "font", "i", "s", "small", "strike",
   "strong", "tt", "u"}

Headings == {"h1", "h2", "h3", "h4", "h5", "h6"}

RECURSIVE pop_until_node(_, _)
\* while node != current node { pop }: Err once there is no current node
pop_until_node(p, node_id) ==
  IF current_node_id(p) = NoNode THEN Err(p)
  ELSE IF current_node_id(p) = node_id THEN p
  ELSE pop_until_node(pop(p), node_id)

\* open_elements.pop() after a step that may have failed
then_pop(p) == IF Ok(p) THEN pop(p) ELSE p

\* a variant that looks at the current node only and never walks down
in_body_other_end_tag_current_only(p, node_index, node_id, token) ==
  IF name_of(p, node_id) = token.tag_name THEN pop(p)
  ELSE handle_error(p, "MinorError")

RECURSIVE in_body_other_end_tag_loop(_, _, _, _)
\* node_index counts from the current node; the first "previous entry" is
\* rev().skip(0), the current node once more
in_body_other_end_tag_loop(p, node_index, node_id, token) ==
  IF name_of(p, node_id) = token.tag_name
    THEN then_pop(pop_until_node(
                    error_unless_current_node_id(
                      generate_implied_end_tags(p, token.tag_name), node_id),
                    node_id))
  ELSE IF name_of(p, node_id) \in SPECIAL_ELEMENTS
    THEN handle_error(p, "MinorError")
  ELSE IF node_index >= Len(p.open_elements) THEN Panic(p)
  ELSE in_body_other_end_tag_loop(
         p, node_index + 1,
         p.open_elements[Len(p.open_elements) - node_index], token)

other_end_tag(p, token) ==
  IF current_node_id(p) = NoNode THEN Err(p)
  ELSE in_body_other_end_tag_loop(p, 0, current_node_id(p), token)

\* the entries after the last marker that are for elements named subject,
\* most recent first
formatting_elements_named(p, subject) ==
  SelectSeq(active_formatting_elements_until_marker(p),
            LAMBDA e : name_of(p, e.node_id) = subject)

\* the special elements below the formatting element in the stack
furthest_blocks(p, formatting_element) ==
  SelectSeq(SubSeq(p.open_elements,
                   position(p.open_elements, formatting_element) + 1,
                   Len(p.open_elements)),
            LAMBDA id : name_of(p, id) \in SPECIAL_ELEMENTS)

\* One pass of the outer loop, from the test of the formatting element on:
\* every path returns, panics or never ends.  Without a furthest block the
\* code runs `while current_node_id != formatting_element.id() { pop }`
\* with current_node_id read once before the loop.
adoption_agency_outer_loop(p, formatting_element) ==
  IF ~contains(p.open_elements, formatting_element)
    THEN handle_error(
           remove_from_active_formatting_elements(p, formatting_element),
           "MinorError")
  ELSE IF ~has_an_element_in_scope(p, name_of(p, formatting_element))
    THEN handle_error(p, "MinorError")
  ELSE IF furthest_blocks(p, formatting_element) = << >>
    THEN IF current_node_id(p) # formatting_element
           THEN Hang([handle_error(p, "MinorError")
                        EXCEPT !.open_elements = << >>,
                               !.inner_loop_iterations = MaxCounted])
         ELSE remove_from_active_formatting_elements(pop(p), formatting_element)
  ELSE Panic(error_unless_current_node_id(p, formatting_element))

adoption_agency_algorithm(p, token) ==
  IF ~Ok(p) THEN p
  ELSE IF current_node_id(p) # NoNode /\ current_node_name(p) = token.tag_name
    THEN pop(p)
  ELSE IF formatting_elements_named(p, token.tag_name) = << >>
    THEN other_end_tag(p, token)
  ELSE adoption_agency_outer_loop(
         [p EXCEPT !.outer_loop_counter = 1, !.inner_loop_iterations = 0],
         formatting_elements_named(p, token.tag_name)[1].node_id)

in_body_html_start(p, token) ==
  LET top_node_id == p.open_elements[1]
      top_element_attrs ==
        {a.name : a \in {attributes_arena(p, top_node_id)[i] :
                           i \in 1..Len(attributes_arena(p, top_node_id))}}
      missing == SelectSeq(token.attributes,
                           LAMBDA a : a.name \notin top_element_attrs)
  IN IF open_elements_has_element(p, "template") THEN p
     ELSE IF p.open_elements = << >> THEN Panic(p)
     ELSE add_attributes(p, top_node_id, missing)

\* close a p element when one is in button scope
close_p_in_button_scope(p) ==
  IF ~Ok(p) THEN p
  ELSE IF has_an_element_in_button_scope(p, "p") THEN close_a_p_element(p)
  ELSE p

step_6_done(p, token) == insert_an_html_element(close_p_in_button_scope(p), token)

\* the first statements of step_3_loop for an li element, after the
\* implied end tags
li_pop(p) ==
  IF current_node_id(p) = NoNode THEN Err(p)
  ELSE pop_until_tag_name(error_unless_current_node_is(p, {"li"}), "li")

RECURSIVE li_step_3_loop(_, _, _)
RECURSIVE li_step_3_rest(_, _, _)
li_step_3_loop(p, element_id, token) ==
  li_step_3_rest(IF name_of(p, element_id) = "li"
                   THEN li_pop(generate_implied_end_tags(p, "li"))
                 ELSE p,
                 element_id, token)

\* position(..).expect(..) and get(index - 1).expect(..) panic when the
\* element is not in the stack or is its first entry
li_step_3_rest(p, element_id, token) ==
  IF ~Ok(p) THEN p
  ELSE IF /\ name_of(p, element_id) \in SPECIAL_ELEMENTS
          /\ name_of(p, element_id) \notin {"address", "div", "p"}
    THEN step_6_done(p, token)
  ELSE IF ~contains(p.open_elements, element_id) THEN Panic(p)
  ELSE IF position(p.open_elements, element_id) = 1 THEN Panic(p)
  ELSE li_step_3_loop(
         p, p.open_elements[position(p.open_elements, element_id) - 1], token)

\* the form element pointer is set unless a template is open
set_form_element_pointer(p) ==
  IF Ok(p) /\ ~open_elements_has_element(p, "template")
    THEN [p EXCEPT !.form_element_pointer = current_node_id(p)]
  ELSE p

in_body_form_start(p, token) ==
  IF p.form_element_pointer # NoNode /\ ~open_elements_has_element(p, "template")
    THEN handle_error(p, "MinorError")
  ELSE set_form_element_pointer(
         insert_an_html_element(close_p_in_button_scope(p), token))

in_body_form_end(p, token) ==
  LET node == p.form_element_pointer
      p1 == [p EXCEPT !.form_element_pointer = NoNode]
      p2 == generate_implied_end_tags(p1, None)
      q2 == generate_implied_end_tags(p, None)
  IN IF ~open_elements_has_element(p, "template")
       THEN IF node = NoNode THEN handle_error(p1, "MinorError")
            ELSE IF ~has_an_element_in_scope(p1, name_of(p1, node))
              THEN handle_error(p1, "MinorError")
            ELSE IF current_node_id(p2) = NoNode THEN Err(p2)
            ELSE [error_unless_current_node_id(p2, node)
                    EXCEPT !.open_elements = Remove(@, node)]
     ELSE IF ~has_an_element_in_scope(p, "form") THEN handle_error(p, "MinorError")
     ELSE IF current_node_id(q2) = NoNode THEN Err(q2)
     ELSE pop_until_tag_name(error_unless_current_node_is(q2, {"form"}), "form")

\* the element just inserted is popped at once; the flag is acknowledged
\* when the token carries it
pop_void(p, token) ==
  IF ~Ok(p) THEN p
  ELSE Return([pop(p) EXCEPT !.frameset_ok = FALSE],
              IF token.self_closing THEN AckYes ELSE AckNo)

\* the void elements
in_body_void(p, token) ==
  pop_void(insert_an_html_element(
             reconstruct_the_active_formatting_elements(p), token), token)

BlockStartNames ==
  {"address", "article", "aside", "blockquote", "center", "details", "dialog",
   "dir", "div", "dl", "fieldset", "figcaption", "figure", "footer", "header",
   "hgroup", "main", "menu", "nav", "ol", "p", "search", "section", "summary",
   "ul"}

BlockEndNames ==
  {"address", "article", "aside", "blockquote", "button", "center", "details",
   "dialog", "dir", "div", "dl", "fieldset", "figcaption", "figure", "footer",
   "header", "hgroup", "listing", "main", "menu", "nav", "ol", "pre",
   "section", "summary", "ul"}

InHeadStartNames ==
  {"base", "basefont", "bgsound", "link", "meta", "noframes", "script",
   "style", "template", "title"}

\* the start tags whose branch of InBody is todo!()
InBodyTodoStartNames ==
  {"frameset", "pre", "listing", "dd", "dt", "plaintext", "nobr", "applet",
   "marquee", "object", "table", "param", "source", "track", "hr", "image",
   "xmp", "iframe", "noembed", "noscript", "select", "optgroup", "option",
   "rb", "rtc", "rp", "rt", "math", "caption", "col", "colgroup", "frame",
   "head", "tbody", "td", "tfoot", "th", "thead", "tr"}

\* an end tag that pops up to an element in scope, after the implied end tags
in_body_end_in_scope(p, in_scope, names) ==
  LET p1 == generate_implied_end_tags(p, None)
  IN IF ~in_scope THEN handle_error(p, "MinorError")
     ELSE IF current_node_id(p1) = NoNode THEN Panic(p1)
     ELSE pop_until_tag_name_one_of(error_unless_current_node_is(p1, names), names)

\* an a element after the last marker of the list is a parse error and
\* runs the adoption agency algorithm
a_in_active_formatting_elements(p, token) ==
  IF \E i \in 1..Len(active_formatting_elements_until_marker(p)) :
       name_of(p, active_formatting_elements_until_marker(p)[i].node_id) = "a"
    THEN adoption_agency_algorithm(handle_error(p, "MinorError"), token)
  ELSE p

push_current_node_onto_the_list(p, token) ==
  IF ~Ok(p) THEN p
  ELSE push_onto_the_list_of_active_formatting_elements(
         p, current_node_id(p), token)

in_body_a_start(p, token) ==
  push_current_node_onto_the_list(
    insert_an_html_element(
      reconstruct_the_active_formatting_elements(
        a_in_active_formatting_elements(p, token)), token), token)

\* a heading that is the current node is popped
pop_heading(p) ==
  IF Ok(p) /\ current_node_name(p) \in Headings
    THEN pop(handle_error(p, "MinorError"))
  ELSE p

\* a button element in scope is closed: implied end tags, then pop until it
close_button_in_scope(p) ==
  IF has_an_element_in_scope(p, "button")
    THEN pop_until_tag_name(
           generate_implied_end_tags(handle_error(p, "MinorError"), None), "button")
  ELSE p

\* without a p element in button scope one is inserted first
p_in_button_scope(p) ==
  IF has_an_element_in_button_scope(p, "p") THEN p
  ELSE insert_an_html_element(handle_error(p, "MinorError"), TagToken("StartTag", "p"))

\* the heading end tags, p being the builder after the implied end tags
pop_until_heading(p) ==
  IF current_node_id(p) = NoNode THEN Err(p)
  ELSE then_no(pop_until_tag_name_one_of(p, Headings))

\* the svg start tag after the insertion: a self-closing one is popped and
\* acknowledged
svg_inserted(p, token) ==
  IF ~Ok(p) THEN p
  ELSE IF token.self_closing THEN Return(pop(p), AckYes)
  ELSE Return(p, AckNo)

\* the test that the body start tag, the body end tag and the html end tag
\* begin with
body_in_scope_checked(p) ==
  IF ~has_an_element_in_scope(p, "body") THEN handle_error(p, "MinorError")
  ELSE ensure_open_elements_has_valid_element(p)

in_body_insertion_mode(p, token) ==
  LET tag == token.tag_name
      start == token.type = "StartTag"
      end == token.type = "EndTag"
  IN IF token.type = "Character" /\ token.c = "NULL" THEN Panic(p)
     ELSE IF is_whitespace(token)
       THEN then_no(insert_character(
                      reconstruct_the_active_formatting_elements(p), token.c))
     ELSE IF token.type = "Character"
       THEN then_no(frameset_not_ok(
                      insert_character(
                        reconstruct_the_active_formatting_elements(p), token.c)))
     ELSE IF token.type = "Comment" THEN then_no(insert_a_comment(p, token, NoNode))
     ELSE IF token.type = "DocType" THEN Panic(p)
     ELSE IF start /\ tag = "html"
       THEN then_no(in_body_html_start(handle_error(p, "MinorError"), token))
     ELSE IF start /\ tag \in InHeadStartNames
       THEN then_no(using_the_rules_for(p, token, "InHead"))
     ELSE IF end /\ tag = "template"
       THEN then_no(using_the_rules_for(p, token, "InHead"))
     ELSE IF start /\ tag = "body"
       THEN Return([body_in_scope_checked(p) EXCEPT !.insertion_mode = "AfterBody"],
                   AckNo)
     ELSE IF start /\ tag = "frameset" THEN Panic(p)
     ELSE IF token.type = "EndOfFile"
       THEN IF p.template_insertion_modes # << >>
              THEN then_no(using_the_rules_for(p, token, "InTemplate"))
            ELSE then_no(stop_parsing(ensure_open_elements_has_valid_element(p)))
     ELSE IF end /\ tag = "body"
       THEN Return([body_in_scope_checked(p) EXCEPT !.insertion_mode = "AfterBody"],
                   AckNo)
     ELSE IF end /\ tag = "html"
       THEN then_no(token_emitted([body_in_scope_checked(p)
                                     EXCEPT !.insertion_mode = "AfterBody"], token))
     ELSE IF start /\ tag \in BlockStartNames
       THEN then_no(insert_an_html_element(close_p_in_button_scope(p), token))
     ELSE IF start /\ tag \in Headings
       THEN then_no(insert_an_html_element(
                      pop_heading(close_p_in_button_scope(p)), token))
     ELSE IF start /\ tag \in InBodyTodoStartNames THEN Panic(p)
     ELSE IF start /\ tag = "form" THEN then_no(in_body_form_start(p, token))
     ELSE IF start /\ tag = "li"
       THEN IF current_node_id(p) = NoNode THEN Err(p)
            ELSE then_no(li_step_3_loop([p EXCEPT !.frameset_ok = FALSE],
                                        current_node_id(p), token))
     ELSE IF start /\ tag = "button"
       THEN then_no(frameset_not_ok(
                      insert_an_html_element(
                        reconstruct_the_active_formatting_elements(
                          close_button_in_scope(p)), token)))
     ELSE IF end /\ tag \in BlockEndNames
       THEN then_no(in_body_end_in_scope(p, has_an_element_in_scope(p, tag), {tag}))
     ELSE IF end /\ tag = "form" THEN then_no(in_body_form_end(p, token))
     ELSE IF end /\ tag = "p"
       THEN then_no(close_a_p_element(p_in_button_scope(p)))
     ELSE IF end /\ tag = "li"
       THEN then_no(IF ~has_an_element_in_list_item_scope(p, "li")
                      THEN handle_error(p, "MinorError")
                    ELSE pop_until_tag_name(
                           error_unless_current_node_is(
                             generate_implied_end_tags(p, "li"), {"li"}), "li"))
     ELSE IF end /\ tag \in {"dd", "dt", "sarcasm", "applet", "marquee", "object"}
       THEN Panic(p)
     ELSE IF end /\ tag \in Headings
       THEN IF ~has_an_element_in_scope_by_tag_names(p, Headings)
              THEN then_no(handle_error(p, "MinorError"))
            ELSE pop_until_heading(
                   error_unless_current_node_is(
                     generate_implied_end_tags(p, None), {tag}))
     ELSE IF start /\ tag = "a" THEN then_no(in_body_a_start(p, token))
     ELSE IF start /\ tag \in FormattingNames
       THEN then_no(adoption_agency_algorithm(p, token))
     ELSE IF end /\ tag \in FormattingNames \cup {"nobr"}
       THEN then_no(adoption_agency_algorithm(p, token))
     ELSE IF end /\ tag = "br"
       THEN in_body_void(handle_error(p, "MinorError"),
                         [renamed(token) EXCEPT !.type = "EndTag",
                                                !.self_closing = token.self_closing])
     ELSE IF start /\ tag \in {"area", "br", "embed", "img", "keygen", "wbr", "input"}
       THEN in_body_void(p, token)
     ELSE IF start /\ tag = "textarea"
       THEN switch_to_text(frameset_not_ok(insert_an_html_element(p, token)),
                           "RCDATA")
     ELSE IF start /\ tag = "svg"
       THEN svg_inserted(insert_foreign_element(
                           reconstruct_the_active_formatting_elements(p),
                           token, FALSE), token)
     ELSE IF start
       THEN then_no(insert_an_html_element(
                      reconstruct_the_active_formatting_elements(p), token))
     ELSE then_no(other_end_tag(p, token))

in_template_retarget(p, token, mode) ==
  LET modes == IF p.template_insertion_modes = << >> THEN << >>
               ELSE SubSeq(p.template_insertion_modes, 1,
                           Len(p.template_insertion_modes) - 1)
  IN then_no(token_emitted([p EXCEPT !.template_insertion_modes = Append(modes, mode),
                                     !.insertion_mode = mode], token))

\* template_insertion_modes.pop()
pop_template_insertion_mode(p) ==
  [p EXCEPT !.template_insertion_modes =
     IF @ = << >> THEN @ ELSE SubSeq(@, 1, Len(@) - 1)]

in_template_insertion_mode(p, token) ==
  LET start == token.type = "StartTag"
      tag == token.tag_name
  IN IF token.type \in {"Character", "Comment", "DocType"}
       THEN then_no(using_the_rules_for(p, token, "InBody"))
     ELSE IF start /\ tag \in InHeadStartNames
       THEN then_no(using_the_rules_for(p, token, "InHead"))
     ELSE IF is_end_tag(token, {"template"})
       THEN then_no(using_the_rules_for(p, token, "InHead"))
     ELSE IF start /\ tag \in {"caption", "colgroup", "tbody", "tfoot", "thead"}
       THEN in_template_retarget(p, token, "InTable")
     ELSE IF start /\ tag = "col" THEN in_template_retarget(p, token, "InColumnGroup")
     ELSE IF start /\ tag = "tr" THEN in_template_retarget(p, token, "InTableBody")
     ELSE IF start /\ tag \in {"td", "th"} THEN in_template_retarget(p, token, "InRow")
     ELSE IF start THEN in_template_retarget(p, token, "InBody")
     ELSE IF token.type = "EndTag" THEN then_no(handle_error(p, "MinorError"))
     ELSE \* EndOfFile
          IF open_elements_has_element(p, "template") THEN then_no(stop_parsing(p))
          ELSE then_no(reprocess(
                 reset_the_insertion_mode_appropriately(
                   pop_template_insertion_mode(
                     clear_the_list_of_active_formatting_elements_up_to_the_last_marker(
                       pop_until_tag_name(handle_error(p, "MinorError"),
                                          "template")))), token))

\* what AfterBody and AfterAfterBody do with a token they do not expect
back_to_in_body(p, token) ==
  then_no(token_emitted([handle_error(p, "MinorError")
                           EXCEPT !.insertion_mode = "InBody"], token))

after_body_insertion_mode(p, token) ==
  IF is_whitespace(token) THEN then_no(using_the_rules_for(p, token, "InBody"))
  ELSE IF token.type \in {"Comment", "DocType"} THEN Panic(p)
  ELSE IF is_start_tag(token, {"html"})
    THEN then_no(using_the_rules_for(p, token, "InBody"))
  ELSE IF is_end_tag(token, {"html"})
    THEN Return([p EXCEPT !.insertion_mode = "AfterAfterBody"], AckNo)
  ELSE IF token.type = "EndOfFile" THEN then_no(stop_parsing(p))
  ELSE back_to_in_body(p, token)

after_after_body_insertion_mode(p, token) ==
  IF token.type = "Comment" THEN Panic(p)
  ELSE IF token.type = "DocType" \/ is_whitespace(token)
    THEN then_no(using_the_rules_for(p, token, "InBody"))
  ELSE IF is_start_tag(token, {"html"})
    THEN then_no(using_the_rules_for(p, token, "InBody"))
  ELSE IF token.type = "EndOfFile" THEN then_no(stop_parsing(p))
  ELSE back_to_in_body(p, token)

\* DefaultParseErrorHandler::error_emitted returns Err for every error
error_emitted(p) == Err(p)

\* the match of token_emitted on the insertion mode; the modes it answers
\* with todo!() panic
insertion_mode_rules(p, token) ==
  IF p.insertion_mode = "Initial" THEN initial_insertion_mode(p, token)
  ELSE IF p.insertion_mode = "BeforeHtml" THEN before_html_insertion_mode(p, token)
  ELSE IF p.insertion_mode = "BeforeHead" THEN before_head_insertion_mode(p, token)
  ELSE IF p.insertion_mode = "InHead" THEN in_head_insertion_mode(p, token)
  ELSE IF p.insertion_mode = "AfterHead" THEN after_head_insertion_mode(p, token)
  ELSE IF p.insertion_mode = "InBody" THEN in_body_insertion_mode(p, token)
  ELSE IF p.insertion_mode = "Text" THEN text_insertion_mode(p, token)
  ELSE IF p.insertion_mode = "InTemplate" THEN in_template_insertion_mode(p, token)
  ELSE IF p.insertion_mode = "AfterBody" THEN after_body_insertion_mode(p, token)
  ELSE IF p.insertion_mode = "AfterAfterBody"
    THEN after_after_body_insertion_mode(p, token)
  ELSE Panic(p)

\* the end of token_emitted, p being the builder after the rules of the
\* insertion mode: a self-closing flag that was not acknowledged is an
\* error.  acknowledged and solidus_errors record what happened.
self_closing_acknowledged(p, self_closing) ==
  IF ~Ok(p) THEN p
  ELSE IF self_closing /\ ~p.ack.self_closed
    THEN error_emitted([p EXCEPT !.solidus_errors = @ + 1])
  ELSE [p EXCEPT !.acknowledged = @ \/ p.ack.self_closed]

\* TagTokenType::self_closing answers for start tags and end tags alike
token_emitted(p, token) ==
  self_closing_acknowledged(
    insertion_mode_rules(p, token),
    token.type \in {"StartTag", "EndTag"} /\ token.self_closing)

\* ------------------------------------------------------------ the cursor
\* VecPointerRef over the code points of the text: index is the position
\* of the item next() returns, counted from 1.
VecPointerRef_new(vec) == [vec |-> vec, index |-> 1]

has_next(is) == is.index <= Len(is.vec)

\* the item next() returns: None past the end
next_item(is) == IF has_next(is) THEN is.vec[is.index] ELSE None

\* the cursor after next(): it advances unless it is past the end
next_advance(is) == IF has_next(is) THEN [is EXCEPT !.index = @ + 1] ELSE is

\* the cursor after prev()
prev(is) == IF is.index > 1 THEN [is EXCEPT !.index = @ - 1] ELSE is

\* peek_current_and_multiple(n): the item next() would return and the ones
\* after it, n in all or as many as are left
peek_current_and_multiple(is, n) ==
  IF has_next(is)
    THEN SubSeq(is.vec, is.index,
                IF is.index + n - 1 <= Len(is.vec) THEN is.index + n - 1
                ELSE Len(is.vec))
  ELSE << >>

\* current(): the item next() would return, the cursor staying where it is
current(is) == IF has_next(is) THEN is.vec[is.index] ELSE None

\* peek(): the item after that one
peek(is) == IF is.index + 1 <= Len(is.vec) THEN is.vec[is.index + 1] ELSE None

\* peek_multiple(n): the n items after the one current() returns, or as
\* many as are left
peek_multiple(is, n) ==
  IF is.index + 1 <= Len(is.vec)
    THEN SubSeq(is.vec, is.index + 1,
                IF is.index + n <= Len(is.vec) THEN is.index + n ELSE Len(is.vec))
  ELSE << >>

\* the cursor after next_add(n): n items further, at most to the end
next_add(is, n) ==
  [is EXCEPT !.index = IF @ + n <= Len(is.vec) + 1 THEN @ + n ELSE Len(is.vec) + 1]

\* ---------------------------------------------------------- the tokenizer
\* A u32 is kept as its two 16-bit halves, hi * 2^16 + lo: the integers of
\* the model checker are narrower than a u32.
Half == 2 ^ 16
U32(hi, lo) == [hi |-> hi, lo |-> lo]

\* the u32 of a number below 2^31
to_u32(n) == U32(n \div Half, n % Half)

\* the number of a u32 that is at most 0x10FFFF (hi at most 16)
code_point_of(u) == u.hi * Half + u.lo

\* u * 10 + digit in unbounded arithmetic, as the halves and what is carried
\* out of the u32
times_ten_plus(u, digit) ==
  [hi |-> (u.hi * 10 + (u.lo * 10 + digit) \div Half) % Half,
   lo |-> (u.lo * 10 + digit) % Half,
   carry |-> (u.hi * 10 + (u.lo * 10 + digit) \div Half) \div Half]

Tokenizer_new(input_stream) ==
  [state |-> "Data",
   return_state |-> None,
   temporary_buffer |-> << >>,
   input_stream |-> input_stream,
   comment_token |-> NoToken,
   doctype_token |-> NoToken,
   tag_token |-> NoToken,
   attribute_name |-> None,
   character_reference_code |-> U32(0, 0),
   last_emitted_start_tag |-> NoToken,
   error_handler |-> None,
   overflow_checks |-> "Any"]

\* Tokenizer::set_error_handler
set_error_handler(t, error_handler) ==
  [t EXCEPT !.error_handler = error_handler]

\* what the run has done so far (history, not program state): the last
\* token handed to the tree builder, the insertion mode it arrived in and
\* the stack of open elements it found,
\* whether the step just taken emitted one, whether end-of-file was ever
\* emitted, and the stack of open elements and insertion mode the builder
\* had when the token that put it in Text mode arrived
History_new ==
  [last_token |-> NoToken, from |-> None, stack_before |-> << >>,
   fresh |-> FALSE, eof_emitted |-> FALSE, text_entry_stack |-> << >>,
   text_entry_mode |-> None,
   events |-> << >>, state_before |-> None, index_before |-> 1,
   value_before |-> "", formatting_before |-> << >>]

\* what a step did, in the order it did it: the errors it reported to the
\* error handler and the tokens it emitted
ErrorEvent(error) == [kind |-> "error", error |-> error, token |-> NoToken]
TokenEvent(token) == [kind |-> "token", error |-> None, token |-> token]

\* a machine is the tokenizer t, the tree builder p it calls, the history
\* h and the result res of the call of step so far
MOk(m) == m.res = "Ok"
MErr(m) == [m EXCEPT !.res = "Err"]
MPanic(m) == [m EXCEPT !.res = "Panic"]

\* the ASCII uppercase letters the texts spell, and their lowercase
UpperToLower ==
  [A |-> "a", B |-> "b", C |-> "c", D |-> "d", E |-> "e", I |-> "i", L |-> "l",
   M |-> "m", O |-> "o", P |-> "p", S |-> "s", T |-> "t", U |-> "u", Y |-> "y"]

is_ascii_uppercase(c) == c \in UppercaseLetters
to_ascii_lowercase(c) == IF is_ascii_uppercase(c) THEN UpperToLower[c] ELSE c

\* str::eq_ignore_ascii_case on the items peeked and the letters of a keyword
eq_ignore_ascii_case(items, word) ==
  /\ Len(items) = Len(word)
  /\ \A i \in 1..Len(word) : to_ascii_lowercase(items[i]) = to_ascii_lowercase(word[i])
is_ascii_lowercase(c) == c \in AttrLetters \cup TagItems \cup Letters

\* Tokenizer::handle_error: without a handler the error is passed over; the
\* DefaultTokenizerErrorHandler lets only UnexpectedNullCharacter through
tokenizer_handle_error(m, error) ==
  IF ~MOk(m) THEN m
  ELSE IF m.t.error_handler = None \/ error = "UnexpectedNullCharacter"
    THEN [m EXCEPT !.h.events = Append(@, ErrorEvent(error))]
  ELSE [m EXCEPT !.h.events = Append(@, ErrorEvent(error)), !.res = "Err"]

\* the history after a token was processed
emitted_history(h, token, from, open_elements, formatting, p1) ==
  [h EXCEPT !.last_token = token,
            !.from = from,
            !.stack_before = open_elements,
            !.formatting_before = formatting,
            !.fresh = TRUE,
            !.eof_emitted = @ \/ token.type = "EndOfFile",
            !.text_entry_stack =
              IF from # "Text" /\ p1.insertion_mode = "Text" THEN open_elements
              ELSE @,
            !.text_entry_mode =
              IF from # "Text" /\ p1.insertion_mode = "Text" THEN from ELSE @]

\* the end of Tokenizer::emit, p1 being the tree builder after
\* token_emitted: the state the Acknowledgement names, if any, is taken
emitted(m, token, p1) ==
  [t |-> IF Ok(p1) /\ p1.ack.tokenizer_state # None
           THEN [m.t EXCEPT !.state = p1.ack.tokenizer_state]
         ELSE m.t,
   p |-> p1,
   h |-> emitted_history(m.h, token, m.p.insertion_mode, m.p.open_elements,
                        m.p.active_formatting_elements, p1),
   res |-> p1.res,
   out |-> m.out,
   back |-> m.back]

\* Tokenizer::emit: a start tag is remembered and the tree builder
\* processes the token
emit(m, token) ==
  emitted([m EXCEPT !.t.last_emitted_start_tag =
                      IF token.type = "StartTag" THEN token ELSE @],
          token,
          token_emitted([m.p EXCEPT !.acknowledged = FALSE, !.solidus_errors = 0,
                                    !.minor_errors = 0],
                        token))

\* `self.emit(token)?` in a state function.  Every state function emits
\* last, or goes on only to emit or to reconsume: its tokens are listed in
\* out, and step hands them to emit, in order, when the function returns
\* and before the state it reconsumes in runs.
emit_token(m, token) ==
  IF MOk(m) THEN [m EXCEPT !.out = Append(@, token),
                           !.h.events = Append(@, TokenEvent(token))]
  ELSE m

\* emit(..)?; emit(..)?; ... for the characters of a sequence
emit_all(m, cs) ==
  IF MOk(m)
    THEN [m EXCEPT !.out = @ \o [i \in 1..Len(cs) |-> Character(cs[i])],
                   !.h.events =
                     @ \o [i \in 1..Len(cs) |-> TokenEvent(Character(cs[i]))]]
  ELSE m

is_current_end_tag_token_appropriate(t) ==
  /\ t.tag_token.type = "EndTag"
  /\ t.last_emitted_start_tag # NoToken
  /\ t.last_emitted_start_tag.tag_name = t.tag_token.tag_name

\* position of the FIRST attribute of the tag token that has the current
\* attribute name, 0 when there is none
current_attribute_index(t) ==
  LET as == t.tag_token.attributes
      hits == {i \in 1..Len(as) : as[i].name = t.attribute_name}
  IN IF t.tag_token = NoToken \/ t.attribute_name = None \/ hits = {} THEN 0
     ELSE CHOOSE i \in hits : \A j \in hits : i <= j

\* the value of that attribute, the empty string when there is none
current_attribute_value(t) ==
  IF current_attribute_index(t) = 0 THEN ""
  ELSE t.tag_token.attributes[current_attribute_index(t)].value

create_new_attribute(m, attribute) ==
  IF m.t.tag_token = NoToken THEN MErr([m EXCEPT !.t.attribute_name = attribute.name])
  ELSE [m EXCEPT !.t.attribute_name = attribute.name,
                 !.t.tag_token.attributes = Append(@, attribute),
                 !.t.tag_token.written = Append(@, attribute.name)]

\* the character goes to the attribute current_attribute_mut finds, and to
\* attribute_name; in written it goes to the name being spelled, the last
push_char_to_attribute_name(m, c) ==
  LET i == current_attribute_index(m.t)
      n == Len(m.t.tag_token.written)
  IN IF i = 0 THEN MErr(m)
     ELSE [m EXCEPT !.t.tag_token.attributes[i].name = @ \o c,
                    !.t.attribute_name = @ \o c,
                    !.t.tag_token.written[n] = @ \o c]

push_char_to_attribute_value(m, c) ==
  LET i == current_attribute_index(m.t)
  IN IF i = 0 THEN MErr(m)
     ELSE [m EXCEPT !.t.tag_token.attributes[i].value = @ \o c]

push_char_to_tag_name(m, c) ==
  IF m.t.tag_token = NoToken THEN MErr(m)
  ELSE [m EXCEPT !.t.tag_token.tag_name = @ \o c]

\* tag_token.take(), then emit
emit_current_tag_token(m) ==
  IF m.t.tag_token = NoToken THEN m
  ELSE emit_token([m EXCEPT !.t.tag_token = NoToken], m.t.tag_token)

\* the machine after input_stream.next()
consume(m) == [m EXCEPT !.t.input_stream = next_advance(@)]

set_state(m, st) == [m EXCEPT !.t.state = st]

\* `f(..)?; self.state = st`
then_state(m, st) == IF MOk(m) THEN set_state(m, st) ELSE m

new_tag(m, type) == [m EXCEPT !.t.tag_token = TagToken(type, "")]

\* reconsume_in_state: step takes it up when the state function returns
reconsume_in_state(m, st) == IF MOk(m) THEN [m EXCEPT !.back = st] ELSE m

\* ------------------------------------------------------ tokenizer states
\* Every state function reads the item next() returns, c, and goes on from
\* the machine after next(), n.
\* data_state with the token emitted before the error is reported
data_state_emitting_first(m) ==
  LET c == next_item(m.t.input_stream)
      n == consume(m)
  IN IF c = None THEN emit_token(n, EndOfFile)
     ELSE IF c = "&" THEN [n EXCEPT !.t.return_state = "Data",
                                    !.t.state = "CharacterReference"]
     ELSE IF c = "<" THEN set_state(n, "TagOpen")
     ELSE IF c = "NULL"
       THEN tokenizer_handle_error(emit_token(n, Character(c)),
                                   "UnexpectedNullCharacter")
     ELSE emit_token(n, Character(c))

data_state(m) ==
  LET c == next_item(m.t.input_stream)
      n == consume(m)
  IN IF c = None THEN emit_token(n, EndOfFile)
     ELSE IF c = "&" THEN [n EXCEPT !.t.return_state = "Data",
                                    !.t.state = "CharacterReference"]
     ELSE IF c = "<" THEN set_state(n, "TagOpen")
     ELSE IF c = "NULL"
       THEN LET n1 == tokenizer_handle_error(n, "UnexpectedNullCharacter")
            IN IF MOk(n1) THEN emit_token(n1, Character(c)) ELSE n1
     ELSE emit_token(n, Character(c))

\* RCDATA, RAWTEXT and script data: less_than is the state "<" leads to
text_like_state(m, less_than, with_reference) ==
  LET c == next_item(m.t.input_stream)
      n == consume(m)
  IN IF c = None THEN emit_token(n, EndOfFile)
     ELSE IF with_reference /\ c = "&"
       THEN [n EXCEPT !.t.return_state = m.t.state,
                      !.t.state = "CharacterReference"]
     ELSE IF c = "<" THEN set_state(n, less_than)
     ELSE IF c = "NULL"
       THEN LET n1 == tokenizer_handle_error(n, "UnexpectedNullCharacter")
            IN IF MOk(n1) THEN emit_token(n1, Character("FEED_REPLACEMENT_CHARACTER"))
               ELSE n1
     ELSE emit_token(n, Character(c))

rcdata_state(m) == text_like_state(m, "RCDATALessThanSign", TRUE)
rawtext_state(m) == text_like_state(m, "RAWTEXTLessThanSign", FALSE)
script_data_state(m) == text_like_state(m, "ScriptDataLessThanSign", FALSE)

tag_open_state(m) ==
  LET c == next_item(m.t.input_stream)
      n == consume(m)
      e1 == tokenizer_handle_error(n, "InvalidFirstCharacterOfTagName")
      e2 == tokenizer_handle_error(n, "EofBeforeTagName")
  IN IF c = None
       THEN reconsume_in_state(emit_all(e2, << "<" >>), "Data")
     ELSE IF c = "!" THEN set_state(n, "MarkupDeclarationOpen")
     ELSE IF c = "/" THEN set_state(n, "EndTagOpen")
     ELSE IF c = "?"
       THEN tokenizer_handle_error(n, "UnexpectedQuestionMarkInsteadOfTagName")
     ELSE IF is_ascii_alphabetic(c)
       THEN reconsume_in_state(new_tag(n, "StartTag"), "TagName")
     ELSE LET n1 == emit_all(e1, << "<" >>)
          IN IF MOk(n1) THEN emit_token(n1, EndOfFile) ELSE n1

end_tag_open_state(m) ==
  LET c == next_item(m.t.input_stream)
      n == consume(m)
  IN IF c = None
       THEN reconsume_in_state(
              emit_all(tokenizer_handle_error(n, "EofBeforeTagName"), << "<", "/" >>),
              "Data")
     ELSE IF is_ascii_alphabetic(c)
       THEN reconsume_in_state(new_tag(n, "EndTag"), "TagName")
     ELSE IF c = ">"
       THEN then_state(tokenizer_handle_error(n, "MissingEndTagName"), "Data")
     ELSE reconsume_in_state(
            tokenizer_handle_error(n, "InvalidFirstCharacterOfTagName"),
            "BogusComment")

\* "EOF in tag": the error, then end-of-file is emitted
eof_in_tag(n) ==
  LET n1 == tokenizer_handle_error(n, "EofInTag")
  IN IF MOk(n1) THEN emit_token(n1, EndOfFile) ELSE n1

tag_name_state(m) ==
  LET c == next_item(m.t.input_stream)
      n == consume(m)
  IN IF c = None THEN eof_in_tag(n)
     ELSE IF c \in Whitespace THEN set_state(n, "BeforeAttributeName")
     ELSE IF c = "/" THEN set_state(n, "SelfClosingStartTag")
     ELSE IF c = ">" THEN emit_current_tag_token(set_state(n, "Data"))
     ELSE IF c = "NULL"
       THEN push_char_to_tag_name(
              tokenizer_handle_error(n, "UnexpectedNullCharacter"),
              "FEED_REPLACEMENT_CHARACTER")
     ELSE IF is_ascii_uppercase(c) THEN push_char_to_tag_name(n, to_ascii_lowercase(c))
     ELSE push_char_to_tag_name(n, c)

\* "<" in RCDATA or script data: solidus opens an end tag, anything else
\* is text again
text_less_than_sign_state(m, end_tag_open, back) ==
  LET c == next_item(m.t.input_stream)
      n == consume(m)
  IN IF c = "/" THEN [n EXCEPT !.t.temporary_buffer = << >>,
                                !.t.state = end_tag_open]
     ELSE reconsume_in_state(emit_all(n, << "<" >>), back)

rcdata_less_than_sign_state(m) ==
  text_less_than_sign_state(m, "RCDATAEndTagOpen", "RCDATA")

script_data_less_than_sign_state(m) ==
  LET c == next_item(m.t.input_stream)
      n == consume(m)
  IN IF c = "!"
       THEN emit_all(set_state(n, "ScriptDataEscapeStart"), << "<", "!" >>)
     ELSE text_less_than_sign_state(m, "ScriptDataEndTagOpen", "ScriptData")

text_end_tag_open_state(m, end_tag_name, back) ==
  LET c == next_item(m.t.input_stream)
      n == consume(m)
  IN IF c # None /\ is_ascii_alphabetic(c)
       THEN reconsume_in_state(new_tag(n, "EndTag"), end_tag_name)
     ELSE reconsume_in_state(emit_all(n, << "<", "/" >>), back)

rcdata_end_tag_open_state(m) ==
  text_end_tag_open_state(m, "RCDATAEndTagName", "RCDATA")

script_data_end_tag_open_state(m) ==
  text_end_tag_open_state(m, "ScriptDataEndTagName", "ScriptData")

\* the end tag name in RCDATA or script data: only the appropriate end tag
\* token ends the text, anything else is emitted as characters
text_end_tag_name_state(m, back) ==
  LET c == next_item(m.t.input_stream)
      n == consume(m)
      appropriate == is_current_end_tag_token_appropriate(n.t)
      anything_else ==
        reconsume_in_state(
          emit_all([n EXCEPT !.t.temporary_buffer = << >>],
                   << "<", "/" >> \o n.t.temporary_buffer),
          back)
      letter(l) == [push_char_to_tag_name(n, l)
                      EXCEPT !.t.temporary_buffer = Append(@, c)]
  IN IF c \in Whitespace /\ appropriate THEN set_state(n, "BeforeAttributeName")
     ELSE IF c = "/" /\ appropriate THEN set_state(n, "SelfClosingStartTag")
     ELSE IF c = ">" /\ appropriate
       THEN emit_current_tag_token(set_state(n, "Data"))
     ELSE IF c # None /\ is_ascii_uppercase(c) THEN letter(to_ascii_lowercase(c))
     ELSE IF c # None /\ is_ascii_lowercase(c) THEN letter(c)
     ELSE anything_else

rcdata_end_tag_name_state(m) == text_end_tag_name_state(m, "RCDATA")
script_data_end_tag_name_state(m) == text_end_tag_name_state(m, "ScriptData")

new_attribute_then_name(n, name) ==
  reconsume_in_state(create_new_attribute(n, Attribute(name, "")), "AttributeName")

before_attribute_name_state(m) ==
  LET c == next_item(m.t.input_stream)
      n == consume(m)
  IN IF c = None THEN reconsume_in_state(n, "AfterAttributeName")
     ELSE IF c \in Whitespace THEN n
     ELSE IF c \in {"/", ">"} THEN reconsume_in_state(n, "AfterAttributeName")
     ELSE IF c = "="
       THEN LET n1 == tokenizer_handle_error(n, "UnexpectedEqualsSignBeforeAttributeName")
            IN IF MOk(n1) THEN then_state(create_new_attribute(n1, Attribute("=", "")),
                                          "AttributeName")
               ELSE n1
     ELSE new_attribute_then_name(n, "")

attribute_name_state(m) ==
  LET c == next_item(m.t.input_stream)
      n == consume(m)
      e == tokenizer_handle_error(n, "UnexpectedCharacterInAttributeName")
  IN IF c = None THEN reconsume_in_state(n, "AfterAttributeName")
     ELSE IF c \in Whitespace \cup {"/", ">"}
       THEN reconsume_in_state(n, "AfterAttributeName")
     ELSE IF c = "=" THEN set_state(n, "BeforeAttributeValue")
     ELSE IF is_ascii_uppercase(c)
       THEN push_char_to_attribute_name(n, to_ascii_lowercase(c))
     ELSE IF c = "NULL"
       THEN push_char_to_attribute_name(
              tokenizer_handle_error(n, "UnexpectedNullCharacter"),
              "FEED_REPLACEMENT_CHARACTER")
     ELSE IF c \in {"\"", "'", "<"}
       THEN IF MOk(e) THEN push_char_to_attribute_name(e, c) ELSE e
     ELSE push_char_to_attribute_name(n, c)

after_attribute_name_state(m) ==
  LET c == next_item(m.t.input_stream)
      n == consume(m)
  IN IF c = None THEN eof_in_tag(n)
     ELSE IF c \in Whitespace THEN n
     ELSE IF c = "/" THEN set_state(n, "SelfClosingStartTag")
     ELSE IF c = "=" THEN set_state(n, "BeforeAttributeValue")
     ELSE IF c = ">" THEN emit_current_tag_token(set_state(n, "Data"))
     ELSE new_attribute_then_name(n, "")

before_attribute_value_state(m) ==
  LET c == next_item(m.t.input_stream)
      n == consume(m)
      e == tokenizer_handle_error(n, "MissingAttributeValue")
  IN IF c = None THEN reconsume_in_state(n, "AttributeValueUnquoted")
     ELSE IF c \in Whitespace THEN n
     ELSE IF c = "\"" THEN set_state(n, "AttributeValueDoubleQuoted")
     ELSE IF c = "'" THEN set_state(n, "AttributeValueSingleQuoted")
     ELSE IF c = ">"
       THEN IF MOk(e) THEN emit_current_tag_token(set_state(e, "Data")) ELSE e
     ELSE reconsume_in_state(n, "AttributeValueUnquoted")

\* the double-quoted and the single-quoted state, quote being their quote
attribute_value_quoted_state(m, quote) ==
  LET c == next_item(m.t.input_stream)
      n == consume(m)
  IN IF c = None THEN eof_in_tag(n)
     ELSE IF c = quote THEN set_state(n, "AfterAttributeValueQuoted")
     ELSE IF c = "&" THEN [n EXCEPT !.t.return_state = m.t.state,
                                    !.t.state = "CharacterReference"]
     ELSE IF c = "NULL"
       THEN push_char_to_attribute_value(
              tokenizer_handle_error(n, "UnexpectedNullCharacter"),
              "FEED_REPLACEMENT_CHARACTER")
     ELSE push_char_to_attribute_value(n, c)

attribute_value_double_quoted_state(m) == attribute_value_quoted_state(m, "\"")
attribute_value_single_quoted_state(m) == attribute_value_quoted_state(m, "'")

attribute_value_unquoted_state(m) ==
  LET c == next_item(m.t.input_stream)
      n == consume(m)
      e == tokenizer_handle_error(n, "UnexpectedCharacterInUnquotedAttributeValue")
  IN IF c = None THEN eof_in_tag(n)
     ELSE IF c \in Whitespace THEN set_state(n, "BeforeAttributeName")
     ELSE IF c = "&" THEN [n EXCEPT !.t.return_state = "AttributeValueUnquoted",
                                    !.t.state = "CharacterReference"]
     ELSE IF c = ">" THEN emit_current_tag_token(set_state(n, "Data"))
     ELSE IF c = "NULL"
       THEN push_char_to_attribute_value(
              tokenizer_handle_error(n, "UnexpectedNullCharacter"),
              "FEED_REPLACEMENT_CHARACTER")
     ELSE IF c \in {"\"", "'", "<", "=", "GRAVE_ACCENT"}
       THEN IF MOk(e) THEN push_char_to_attribute_value(e, c) ELSE e
     ELSE push_char_to_attribute_value(n, c)

after_attribute_value_quoted_state(m) ==
  LET c == next_item(m.t.input_stream)
      n == consume(m)
  IN IF c = None THEN eof_in_tag(n)
     ELSE IF c \in Whitespace THEN set_state(n, "BeforeAttributeName")
     ELSE IF c = "/" THEN set_state(n, "SelfClosingStartTag")
     ELSE IF c = ">" THEN emit_current_tag_token(set_state(n, "Data"))
     ELSE reconsume_in_state(
            tokenizer_handle_error(n, "MissingWhitespaceBetweenAttributes"),
            "BeforeAttributeName")

self_closing_start_tag_state(m) ==
  LET c == next_item(m.t.input_stream)
      n == consume(m)
  IN IF c = None THEN eof_in_tag(n)
     ELSE IF c = ">"
       THEN IF n.t.tag_token = NoToken THEN MErr(n)
            ELSE emit_current_tag_token(
                   set_state([n EXCEPT !.t.tag_token.self_closing = TRUE], "Data"))
     ELSE reconsume_in_state(tokenizer_handle_error(n, "UnexpectedSolidusInTag"),
                             "BeforeAttributeName")

\* ----------------------------------------------------- DOCTYPE states
emit_current_comment_token(m) ==
  IF m.t.comment_token = NoToken \/ ~MOk(m) THEN m
  ELSE emit_token([m EXCEPT !.t.comment_token = NoToken], m.t.comment_token)

emit_current_doctype_token(m) ==
  IF m.t.doctype_token = NoToken \/ ~MOk(m) THEN m
  ELSE emit_token([m EXCEPT !.t.doctype_token = NoToken], m.t.doctype_token)

emit_current_token(m) ==
  IF m.t.comment_token # NoToken THEN emit_current_comment_token(m)
  ELSE IF m.t.doctype_token # NoToken THEN emit_current_doctype_token(m)
  ELSE IF m.t.tag_token # NoToken /\ MOk(m) THEN emit_current_tag_token(m)
  ELSE m

\* the letters of the keywords markup_declaration_open_state and
\* after_doctype_name_state look for
DOCTYPE == << "D", "O", "C", "T", "Y", "P", "E" >>
CDATA == << "[", "C", "D", "A", "T", "A", "[" >>
PUBLIC == << "P", "U", "B", "L", "I", "C" >>
SYSTEM == << "S", "Y", "S", "T", "E", "M" >>

\* The CDATA branch does not return: it goes on into the branch of
\* anything else.  (The state it may set from the adjusted current node
\* is overwritten there, or the run has failed: it is left out.)
markup_declaration_open_state(m) ==
  LET is == m.t.input_stream
      cdata == tokenizer_handle_error(
                 [m EXCEPT !.t.input_stream = next_add(@, 7)], "CdataInHtmlContent")
      from == IF peek_current_and_multiple(is, 7) = CDATA THEN cdata ELSE m
      e == tokenizer_handle_error(from, "IncorrectlyOpenedComment")
  IN IF peek_current_and_multiple(is, 2) = << "-", "-" >>
       THEN [m EXCEPT !.t.input_stream = next_add(@, 2),
                      !.t.comment_token = CommentToken(""),
                      !.t.state = "CommentStart"]
     ELSE IF eq_ignore_ascii_case(peek_current_and_multiple(is, 7), DOCTYPE)
       THEN [m EXCEPT !.t.input_stream = next_add(@, 7), !.t.state = "DOCTYPE"]
     ELSE IF MOk(e)
       THEN [e EXCEPT !.t.comment_token = CommentToken(""),
                      !.t.state = "BogusComment"]
     ELSE e

\* EofInDoctype: a DOCTYPE token is made, emitted, and end-of-file after it
eof_in_doctype(n, token) ==
  LET n1 == tokenizer_handle_error(n, "EofInDoctype")
      n2 == emit_current_token([n1 EXCEPT !.t.doctype_token = token])
  IN IF MOk(n1) THEN emit_token(n2, EndOfFile) ELSE n1

doctype_state(m) ==
  LET c == next_item(m.t.input_stream)
      n == consume(m)
  IN IF c = None THEN eof_in_doctype(n, DocTypeToken(""))
     ELSE IF c \in Whitespace THEN set_state(n, "BeforeDOCTYPEName")
     ELSE IF c = ">" THEN reconsume_in_state(n, "DOCTYPEName")
     ELSE reconsume_in_state(
            tokenizer_handle_error(n, "MissingWhitespaceBeforeDoctypeName"),
            "BeforeDOCTYPEName")

before_doctype_name(m) ==
  LET c == next_item(m.t.input_stream)
      n == consume(m)
      e == tokenizer_handle_error(n, "MissingDoctypeName")
  IN IF c = None THEN eof_in_doctype(n, DocTypeToken(""))
     ELSE IF c \in Whitespace THEN n
     ELSE IF is_ascii_uppercase(c)
       THEN [n EXCEPT !.t.doctype_token = DocTypeToken(to_ascii_lowercase(c)),
                      !.t.state = "DOCTYPEName"]
     ELSE IF c = "NULL"
       THEN [tokenizer_handle_error(n, "UnexpectedNullCharacter")
               EXCEPT !.t.doctype_token = DocTypeToken("FEED_REPLACEMENT_CHARACTER"),
                      !.t.state = "DOCTYPEName"]
     ELSE IF c = ">"
       THEN then_state(
              emit_current_token(
                IF MOk(e) THEN [e EXCEPT !.t.doctype_token = DocTypeToken("")] ELSE e),
              "Data")
     ELSE [n EXCEPT !.t.doctype_token = DocTypeToken(c), !.t.state = "DOCTYPEName"]

\* current_doctype_token_mut()?.name.push(c)
push_char_to_doctype_name(m, c) ==
  IF m.t.doctype_token = NoToken THEN MErr(m)
  ELSE [m EXCEPT !.t.doctype_token.tag_name = @ \o c]

\* EofInDoctype with a current DOCTYPE token: force_quirks is set on it
\* (an Err when there is none), it is emitted, and end-of-file after it
eof_in_doctype_name(n) ==
  LET n1 == tokenizer_handle_error(n, "EofInDoctype")
      n2 == IF n1.t.doctype_token = NoToken THEN MErr(n1) ELSE n1
      n3 == emit_current_doctype_token(n2)
  IN IF MOk(n3) THEN emit_token(n3, EndOfFile) ELSE n3

doctype_name_state(m) ==
  LET c == next_item(m.t.input_stream)
      n == consume(m)
  IN IF c = None THEN eof_in_doctype_name(n)
     ELSE IF c \in Whitespace THEN set_state(n, "AfterDOCTYPEName")
     ELSE IF c = ">" THEN then_state(emit_current_doctype_token(n), "Data")
     ELSE IF is_ascii_uppercase(c)
       THEN push_char_to_doctype_name(n, to_ascii_lowercase(c))
     ELSE IF c = "NULL"
       THEN push_char_to_doctype_name(
              tokenizer_handle_error(n, "UnexpectedNullCharacter"),
              "FEED_REPLACEMENT_CHARACTER")
     ELSE push_char_to_doctype_name(n, c)

\* anything else: the cursor is put back on the item, the six items from
\* it on are compared with PUBLIC and SYSTEM, and five of them are skipped
after_doctype_name_state(m) ==
  LET c == next_item(m.t.input_stream)
      n == consume(m)
      back == [n EXCEPT !.t.input_stream = prev(@)]
      six == peek_current_and_multiple(back.t.input_stream, 6)
      e == tokenizer_handle_error(back, "InvalidCharacterSequenceAfterDoctypeName")
  IN IF c = None THEN eof_in_doctype_name(n)
     ELSE IF c \in Whitespace THEN n
     ELSE IF c = ">" THEN then_state(emit_current_doctype_token(n), "Data")
     ELSE IF eq_ignore_ascii_case(six, PUBLIC)
       THEN [back EXCEPT !.t.input_stream = next_add(@, 5),
                         !.t.state = "AfterDOCTYPEPublicKeyword"]
     ELSE IF eq_ignore_ascii_case(six, SYSTEM)
       THEN [back EXCEPT !.t.input_stream = next_add(@, 5),
                         !.t.state = "AfterDOCTYPESystemKeyword"]
     ELSE IF ~MOk(e) THEN e
     ELSE IF e.t.doctype_token = NoToken THEN MErr(e)
     ELSE reconsume_in_state(e, "BogusDOCTYPE")

\* ------------------------------------------- character reference states
\* the named character references the texts use, out of the table
\* NAMED_CHARACTER_REFS: the key is the reference as the text spells it,
\* "&" first; the value is the code points it stands for
NAMED_CHARACTER_REFS ==
  (<< "&", "a", "m", "p", ";" >> :> << "&" >>)
  @@ (<< "&", "a", "m", "p" >> :> << "&" >>)
  @@ (<< "&", "l", "t", ";" >> :> << "<" >>)
  @@ (<< "&", "l", "t" >> :> << "<" >>)
  @@ (<< "&", "n", "o", "t", ";" >> :> << "NOT_SIGN" >>)
  @@ (<< "&", "n", "o", "t" >> :> << "NOT_SIGN" >>)
  @@ (<< "&", "n", "o", "t", "i", "n", ";" >> :> << "NOT_AN_ELEMENT_OF" >>)
  @@ (<< "&", "b", "n", "e", ";" >> :> << "=", "COMBINING_REVERSE_SOLIDUS_OVERLAY" >>)

\* the length of the longest key, "&" not counted
NAMED_CHARACTER_REFS_MAX_LENGTH ==
  CHOOSE n \in 0..32 :
    /\ \E k \in DOMAIN NAMED_CHARACTER_REFS : Len(k) = n + 1
    /\ \A k \in DOMAIN NAMED_CHARACTER_REFS : Len(k) <= n + 1

starts_with(key, k) == Len(k) <= Len(key) /\ SubSeq(key, 1, Len(k)) = k

\* the longest key of the table that key starts with, << >> if there is none
longest_match(key) ==
  LET matches == {k \in DOMAIN NAMED_CHARACTER_REFS : starts_with(key, k)}
  IN IF matches = {} THEN << >>
     ELSE CHOOSE k \in matches : \A j \in matches : Len(j) <= Len(k)

charref_in_attribute(t) ==
  t.return_state \in {"AttributeValueDoubleQuoted", "AttributeValueSingleQuoted",
                      "AttributeValueUnquoted"}

RECURSIVE concat(_)
\* the String of a sequence of code points
concat(cs) == IF cs = << >> THEN "" ELSE Head(cs) \o concat(Tail(cs))

\* current_attribute_mut()?.value.push(c) for every c of cs
push_all_to_attribute_value(m, cs) ==
  IF cs = << >> \/ ~MOk(m) THEN m
  ELSE IF current_attribute_index(m.t) = 0 THEN MErr(m)
  ELSE [m EXCEPT !.t.tag_token.attributes[current_attribute_index(m.t)].value =
                   @ \o concat(cs)]

\* the temporary buffer is drained; its code points go to the value of the
\* current attribute or are emitted as character tokens
flush_code_points_consumed_as_character_reference(m) ==
  IF ~MOk(m) THEN m
  ELSE IF charref_in_attribute(m.t)
    THEN push_all_to_attribute_value([m EXCEPT !.t.temporary_buffer = << >>],
                                     m.t.temporary_buffer)
  ELSE emit_all([m EXCEPT !.t.temporary_buffer = << >>], m.t.temporary_buffer)

\* reconsume_in_state(self.current_return_state()?)
reconsume_in_return_state(m) ==
  IF ~MOk(m) THEN m
  ELSE IF m.t.return_state = None THEN MErr(m)
  ELSE reconsume_in_state(m, m.t.return_state)

\* self.state = self.current_return_state()?
switch_to_return_state(m) ==
  IF ~MOk(m) THEN m
  ELSE IF m.t.return_state = None THEN MErr(m)
  ELSE set_state(m, m.t.return_state)

character_reference_state(m) ==
  LET c == next_item(m.t.input_stream)
      n == [consume(m) EXCEPT !.t.temporary_buffer = << "&" >>]
  IN IF c # None /\ is_ascii_alphanumeric(c)
       THEN reconsume_in_state(n, "NamedCharacterReference")
     ELSE IF c = "#"
       THEN [n EXCEPT !.t.temporary_buffer = Append(@, "#"),
                      !.t.state = "NumericCharacterReference"]
     ELSE reconsume_in_return_state(
            flush_code_points_consumed_as_character_reference(n))

\* the match was found and consumed, and its characters are in the
\* temporary buffer: the rest of named_character_reference_state
named_character_reference_matched(n, char_ref) ==
  LET semicolon == char_ref[Len(char_ref)] = ";"
      next == peek(n.t.input_stream)
      e == IF semicolon THEN n
           ELSE tokenizer_handle_error(n, "MissingSemicolonAfterCharacterReference")
  IN IF charref_in_attribute(n.t) /\ ~semicolon /\ next # None
          /\ (next = "=" \/ is_ascii_alphanumeric(next))
       THEN \* historical_reasons
            switch_to_return_state(
              flush_code_points_consumed_as_character_reference(n))
     ELSE IF ~MOk(e) THEN e
     ELSE switch_to_return_state(
            flush_code_points_consumed_as_character_reference(
              [e EXCEPT !.t.temporary_buffer = NAMED_CHARACTER_REFS[char_ref]]))

named_character_reference_state(m) ==
  LET is == m.t.input_stream
      key == << "&" >>
             \o (IF current(is) = None THEN << >> ELSE << current(is) >>)
             \o peek_multiple(is, NAMED_CHARACTER_REFS_MAX_LENGTH)
      char_ref == longest_match(key)
  IN IF char_ref = << >>
       THEN then_state(flush_code_points_consumed_as_character_reference(m),
                       "AmbiguousAmpersand")
     ELSE named_character_reference_matched(
            [m EXCEPT !.t.input_stream = next_add(@, Len(char_ref) - 1),
                      !.t.temporary_buffer = @ \o char_ref],
            char_ref)

ambiguous_ampersand_state(m) ==
  LET c == next_item(m.t.input_stream)
      n == consume(m)
  IN IF c # None /\ is_ascii_alphanumeric(c)
       THEN IF charref_in_attribute(n.t) THEN push_all_to_attribute_value(n, << c >>)
            ELSE emit_token(n, Character(c))
     ELSE IF c = ";"
       THEN reconsume_in_return_state(
              tokenizer_handle_error(n, "UnknownNamedCharacterReference"))
     ELSE reconsume_in_return_state(n)

numeric_character_reference_state(m) ==
  LET c == next_item(m.t.input_stream)
      n == [consume(m) EXCEPT !.t.character_reference_code = U32(0, 0)]
  IN IF c \in {"x", "X"}
       THEN [n EXCEPT !.t.temporary_buffer = Append(@, c),
                      !.t.state = "HexadecimalCharacterReferenceStart"]
     ELSE reconsume_in_state(n, "DecimalCharacterReferenceStart")

decimal_character_reference_start_state(m) ==
  LET c == next_item(m.t.input_stream)
      n == consume(m)
  IN IF c # None /\ is_ascii_digit(c)
       THEN reconsume_in_state(n, "DecimalCharacterReference")
     ELSE reconsume_in_return_state(
            flush_code_points_consumed_as_character_reference(
              tokenizer_handle_error(
                n, "AbsenceOfDigitsInNumericCharacterReference")))

\* `code *= 10; code += digit` leaves the u32
overflows(code, c) ==
  c # None /\ is_ascii_digit(c) /\ times_ten_plus(code, DigitValue[c]).carry > 0

\* With overflow checks (a debug build) the arithmetic that leaves the u32
\* panics; without them (a release build) it wraps.
decimal_character_reference_state(m) ==
  LET c == next_item(m.t.input_stream)
      n == consume(m)
      code == m.t.character_reference_code
  IN IF c # None /\ is_ascii_digit(c)
       THEN IF overflows(code, c) /\ m.t.overflow_checks = "On" THEN MPanic(n)
            ELSE [n EXCEPT !.t.character_reference_code =
                             U32(times_ten_plus(code, DigitValue[c]).hi,
                                 times_ten_plus(code, DigitValue[c]).lo)]
     ELSE IF c = ";" THEN set_state(n, "NumericCharacterReferenceEnd")
     ELSE reconsume_in_state(
            tokenizer_handle_error(n, "MissingSemicolonAfterCharacterReference"),
            "NumericCharacterReferenceEnd")

is_leading_surrogate(code_point) == code_point >= 55296 /\ code_point <= 56319
is_trailing_surrogate(code_point) == code_point >= 56320 /\ code_point <= 57343
is_surrogate(code_point) ==
  is_leading_surrogate(code_point) \/ is_trailing_surrogate(code_point)

\* 0xFDD0..0xFDEF, and the last two code points of every plane
is_noncharacter(code_point) ==
  \/ code_point >= 64976 /\ code_point <= 65007
  \/ code_point <= 1114111 /\ code_point % 65536 \in {65534, 65535}

is_c0_control(code_point) == code_point >= 0 /\ code_point <= 31
is_control(code_point) ==
  is_c0_control(code_point) \/ (code_point >= 127 /\ code_point <= 159)
is_ascii_whitespace(code_point) == code_point \in {9, 10, 12, 13, 32}

\* 0x80 -> 0x20AC, 0x82 -> 0x201A, ... 0x9F -> 0x0178
NUMERIC_CHARACTER_REF_END_TABLE ==
  (128 :> 8364) @@ (130 :> 8218) @@ (131 :> 402) @@ (132 :> 8222)
  @@ (133 :> 8230) @@ (134 :> 8224) @@ (135 :> 8225) @@ (136 :> 710)
  @@ (137 :> 8240) @@ (138 :> 352) @@ (139 :> 8249) @@ (140 :> 338)
  @@ (142 :> 381) @@ (145 :> 8216) @@ (146 :> 8217) @@ (147 :> 8220)
  @@ (148 :> 8221) @@ (149 :> 8226) @@ (150 :> 8211) @@ (151 :> 8212)
  @@ (152 :> 732) @@ (153 :> 8482) @@ (154 :> 353) @@ (155 :> 8250)
  @@ (156 :> 339) @@ (158 :> 382) @@ (159 :> 376)

\* the code points the texts can spell or refer to by number and that have
\* a spelling here; every other one is written U+ and its number
CodePoints ==
  (38 :> "&") @@ (39 :> "'") @@ (49 :> "1") @@ (60 :> "<")
  @@ (96 :> "GRAVE_ACCENT") @@ (65533 :> "FEED_REPLACEMENT_CHARACTER")

\* code > 0x10FFFF
outside_unicode_range(u) == u.hi > 16

\* std::char::from_u32: None for a surrogate and past 0x10FFFF
from_u32(u) ==
  IF outside_unicode_range(u) \/ is_surrogate(code_point_of(u)) THEN None
  ELSE IF code_point_of(u) \in DOMAIN CodePoints THEN CodePoints[code_point_of(u)]
  ELSE "U+" \o ToString(code_point_of(u))

\* the checks of numeric_character_reference_end_state: each reports its
\* error and then, if the handler let it pass, replaces the code
numeric_character_reference_checked(m) ==
  LET code == code_point_of(m.t.character_reference_code)
      null == tokenizer_handle_error(m, "NullCharacterReference")
      outside == tokenizer_handle_error(m, "CharacterReferenceOutsideUnicodeRange")
      surrogate == tokenizer_handle_error(m, "SurrogateCharacterReference")
      control == tokenizer_handle_error(m, "ControlCharacterReference")
  IN IF m.t.character_reference_code = U32(0, 0)
       THEN IF MOk(null) THEN [null EXCEPT !.t.character_reference_code = to_u32(65533)]
            ELSE null
     ELSE IF outside_unicode_range(m.t.character_reference_code)
       THEN IF MOk(outside)
              THEN [outside EXCEPT !.t.character_reference_code = to_u32(65533)]
            ELSE outside
     ELSE IF is_surrogate(code)
       THEN IF MOk(surrogate)
              THEN [surrogate EXCEPT !.t.character_reference_code = to_u32(65533)]
            ELSE surrogate
     ELSE IF is_noncharacter(code)
       THEN tokenizer_handle_error(m, "NoncharacterCharacterReference")
     ELSE IF code = 13 \/ (is_control(code) /\ ~is_ascii_whitespace(code))
       THEN IF MOk(control) /\ code \in DOMAIN NUMERIC_CHARACTER_REF_END_TABLE
              THEN [control EXCEPT !.t.character_reference_code =
                                     to_u32(NUMERIC_CHARACTER_REF_END_TABLE[code])]
            ELSE control
     ELSE m

\* the rest of it: the code point is made the temporary buffer and flushed
numeric_character_reference_flushed(m) ==
  IF ~MOk(m) THEN m
  ELSE IF from_u32(m.t.character_reference_code) = None THEN MPanic(m)
  ELSE switch_to_return_state(
         flush_code_points_consumed_as_character_reference(
           [m EXCEPT !.t.temporary_buffer =
                       << from_u32(m.t.character_reference_code) >>]))

numeric_character_reference_end_state(m) ==
  numeric_character_reference_flushed(numeric_character_reference_checked(m))

\* the states Tokenizer::step answers with todo!()
TodoStates ==
  {"PLAINTEXT", "RAWTEXTLessThanSign", "RAWTEXTEndTagOpen", "RAWTEXTEndTagName",
   "AfterDOCTYPEPublicKeyword", "BeforeDOCTYPEPublicIdentifier",
   "DOCTYPEPublicIdentifierDoubleQuoted", "DOCTYPEPublicIdentifierSingleQuoted",
   "AfterDOCTYPEPublicIdentifier", "BetweenDOCTYPEPublicAndSystemIdentifiers",
   "AfterDOCTYPESystemKeyword", "BeforeDOCTYPESystemIdentifier",
   "DOCTYPESystemIdentifierDoubleQuoted", "DOCTYPESystemIdentifierSingleQuoted",
   "AfterDOCTYPESystemIdentifier", "BogusDOCTYPE", "CDATASection",
   "CDATASectionBracket", "CDATASectionEnd", "HexadecimalCharacterReferenceStart",
   "HexadecimalCharacterReference"}

\* the match of Tokenizer::step on the state.  The states of comments and
\* of escaped script data need "<!--", which no text here contains;
\* reaching one of them ends the run as "Unmodelled".
state_rules(m) ==
  LET st == m.t.state
  IN IF st = "Data" THEN data_state(m)
     ELSE IF st = "RCDATA" THEN rcdata_state(m)
     ELSE IF st = "RAWTEXT" THEN rawtext_state(m)
     ELSE IF st = "ScriptData" THEN script_data_state(m)
     ELSE IF st = "TagOpen" THEN tag_open_state(m)
     ELSE IF st = "EndTagOpen" THEN end_tag_open_state(m)
     ELSE IF st = "TagName" THEN tag_name_state(m)
     ELSE IF st = "RCDATALessThanSign" THEN rcdata_less_than_sign_state(m)
     ELSE IF st = "RCDATAEndTagOpen" THEN rcdata_end_tag_open_state(m)
     ELSE IF st = "RCDATAEndTagName" THEN rcdata_end_tag_name_state(m)
     ELSE IF st = "ScriptDataLessThanSign" THEN script_data_less_than_sign_state(m)
     ELSE IF st = "ScriptDataEndTagOpen" THEN script_data_end_tag_open_state(m)
     ELSE IF st = "ScriptDataEndTagName" THEN script_data_end_tag_name_state(m)
     ELSE IF st = "BeforeAttributeName" THEN before_attribute_name_state(m)
     ELSE IF st = "AttributeName" THEN attribute_name_state(m)
     ELSE IF st = "AfterAttributeName" THEN after_attribute_name_state(m)
     ELSE IF st = "BeforeAttributeValue" THEN before_attribute_value_state(m)
     ELSE IF st = "AttributeValueDoubleQuoted"
       THEN attribute_value_double_quoted_state(m)
     ELSE IF st = "AttributeValueSingleQuoted"
       THEN attribute_value_single_quoted_state(m)
     ELSE IF st = "AttributeValueUnquoted" THEN attribute_value_unquoted_state(m)
     ELSE IF st = "AfterAttributeValueQuoted"
       THEN after_attribute_value_quoted_state(m)
     ELSE IF st = "SelfClosingStartTag" THEN self_closing_start_tag_state(m)
     ELSE IF st = "MarkupDeclarationOpen" THEN markup_declaration_open_state(m)
     ELSE IF st = "CharacterReference" THEN character_reference_state(m)
     ELSE IF st = "NamedCharacterReference" THEN named_character_reference_state(m)
     ELSE IF st = "AmbiguousAmpersand" THEN ambiguous_ampersand_state(m)
     ELSE IF st = "NumericCharacterReference"
       THEN numeric_character_reference_state(m)
     ELSE IF st = "DecimalCharacterReferenceStart"
       THEN decimal_character_reference_start_state(m)
     ELSE IF st = "DecimalCharacterReference"
       THEN decimal_character_reference_state(m)
     ELSE IF st = "NumericCharacterReferenceEnd"
       THEN numeric_character_reference_end_state(m)
     ELSE IF st = "DOCTYPE" THEN doctype_state(m)
     ELSE IF st = "BeforeDOCTYPEName" THEN before_doctype_name(m)
     ELSE IF st = "DOCTYPEName" THEN doctype_name_state(m)
     ELSE IF st = "AfterDOCTYPEName" THEN after_doctype_name_state(m)
     ELSE IF st \in TodoStates THEN MPanic(m)
     ELSE [m EXCEPT !.res = "Unmodelled"]

RECURSIVE emit_out(_)
\* the tokens of out go to emit, in order, until one fails: the tokens
\* after that one are not emitted
emit_out(m) ==
  IF m.out = << >> THEN m
  ELSE IF ~MOk(m)
    THEN [m EXCEPT !.h.events = SubSeq(@, 1, Len(@) - Len(m.out)), !.out = << >>]
  ELSE emit_out(emit([m EXCEPT !.out = Tail(@)], Head(m.out)))

RECURSIVE step(_)
\* the rest of reconsume_in_state: prev, the state, and step again
reconsumed(m) ==
  IF MOk(m) /\ m.back # None
    THEN step([m EXCEPT !.t.input_stream = prev(@), !.t.state = m.back,
                        !.back = None])
  ELSE m

\* Tokenizer::step
step(m) == reconsumed(emit_out(state_rules(m)))

\* ------------------------------------------------------------ the texts
StartTag(name) == << "<", name, ">" >>
EndTag(name) == << "<", "/", name, ">" >>

\* the words the text given to parse is made of
Vocabulary ==
  {StartTag(n) : n \in {"html", "head", "body", "title", "script", "style",
                        "textarea", "template", "meta", "p", "a", "b", "div",
                        "br"}}
  \cup {EndTag(n) : n \in {"html", "head", "body", "title", "script",
                           "textarea", "template", "p", "a", "b", "div",
                           "span", "li", "h1", "form"}}
  \cup { << "1" >>, << " " >>, << "<" >>,
         << "<", "br", "/", ">" >>,
         << "<", "p", "/", ">" >>,
         << "<", "p", " ", "a", "=", "1", " ", "a", "b", "=", "2", ">" >>,
         << "<", "p", " ", "b", " ", "=", "\"", "1", "\"", " ", "a", " ", ">" >>,
         << "<", "div", " ", "a", "=", "'", "1", "'", "/", ">" >> }

\* the mis-nested formatting text <p>1<b>2<i>3</p>4</i>5</b>
MisNested ==
  StartTag("p") \o << "1" >> \o StartTag("b") \o << "2" >> \o StartTag("i")
  \o << "3" >> \o EndTag("p") \o << "4" >> \o EndTag("i") \o << "5" >>
  \o EndTag("b")

\* DOCTYPE declarations: plain, in lower case, with a public and a system
\* identifier, and with a system identifier
DoctypePlain == << "<", "!" >> \o DOCTYPE \o << " ", "html", ">" >>
DoctypeLower == << "<", "!", "d", "o", "c", "t", "y", "p", "e", " ", "html", ">" >>
DoctypePublic ==
  << "<", "!" >> \o DOCTYPE \o << " ", "html", " " >> \o PUBLIC
  \o << " ", "\"", "1", "\"", " ", "\"", "1", "\"", ">" >>
DoctypeSystem ==
  << "<", "!" >> \o DOCTYPE \o << " ", "html", " " >> \o SYSTEM
  \o << " ", "\"", "1", "\"", ">" >>
Doctypes == {DoctypePlain, DoctypeLower, DoctypePublic, DoctypeSystem}

\* a start tag with an attribute value in double quotes
Quoted(value) == << "<", "p", " ", "a", "=", "\"" >> \o value \o << "\"", ">" >>

\* character references in text and in an attribute value: named ones with
\* and without their semicolon, and decimal ones
References ==
  { << "&", "a", "m", "p", ";" >>,
    << "&", "b", "n", "e", ";" >>,
    << "&", "n", "o", "t", "i", "n", ";" >>,
    << "&", "n", "o", "t", "i", "t", ";" >>,
    << "&", "a", "m", "p", "=", "1" >>,
    << "&", "#", "3", "9", ";" >>,
    << "&", "#", "9", "6", ";" >>,
    << "&", "#", "0", ";" >>,
    << "&", "#", "x", "4", "1", ";" >>,
    << "&", "#", "5", "5", "2", "9", "6", ";" >>,
    << "&", "#", "1", "1", "1", "4", "1", "1", "2", ";" >>,
    << "&", "#", "4", "2", "9", "4", "9", "6", "7", "2", "9", "6", ";" >>,
    << "&", "#", "4", "2", "9", "4", "9", "6", "7", "3", "3", "5", ";" >> }

\* the texts a run may start from besides the empty one: words are added
\* to them as to the empty one, one word less
Scenarios ==
  Doctypes \cup References \cup {Quoted(r) : r \in References} \cup
  { << "NULL" >>, StartTag("p") \o << "NULL" >>,
    MisNested,
    StartTag("a") \o StartTag("span"),
    StartTag("span") \o StartTag("a"),
    StartTag("template") \o StartTag("a") \o StartTag("a") \o StartTag("a"),
    StartTag("a") \o << "1" >> \o StartTag("div") \o StartTag("a"),
    StartTag("li") \o << "1" >> \o StartTag("li"),
    StartTag("form") \o StartTag("div") \o EndTag("form"),
    StartTag("h1") \o << "1" >> \o StartTag("h1"),
    StartTag("button") \o << "1" >> \o StartTag("button"),
    StartTag("body") \o StartTag("title"),
    StartTag("body") \o StartTag("textarea") \o << "1", "<" >>,
    StartTag("head") \o StartTag("script") \o << "1", "<" >>,
    StartTag("head") \o StartTag("style") \o << "1" >>,
    StartTag("head") \o StartTag("title") \o << "<", "/", "title", " " >>,
    StartTag("head") \o StartTag("title") \o << "<", "/", "title", "/" >>,
    StartTag("head") \o StartTag("title") \o << "<", "/", "p", " " >>,
    StartTag("head") \o StartTag("title") \o << "<", "/", "p", "/" >>,
    StartTag("head") \o StartTag("title")
      \o << "<", "/", "T", "I", "T", "L", "E", ">" >>,
    StartTag("head") \o StartTag("script") \o << "<", "/", "script", " " >>,
    StartTag("head") \o StartTag("script") \o << "<", "/", "p", "/" >>,
    StartTag("template") \o StartTag("title") \o EndTag("x"),
    << "<", "html", " ", "a", "=", "1", ">" >> \o StartTag("body")
      \o << "<", "html", " ", "b", "=", "2", " ", "a", "=", "3", ">" >>,
    StartTag("div") \o << "<", "svg", "/", ">" >>,
    << "<", "div", " ", "a", " ", "a", "=", "1", ">" >>,
    StartTag("body") \o << "<", "body", " ", "a", "=", "1", ">" >> }

\* --------------------------------------------------------------- the run
\* One behaviour is HtmlParser::parse on one text.  The text is made of at
\* most MaxWords words of Vocabulary, the first of which may be one of
\* Scenarios instead, and it is settled a word at a time, whenever the
\* cursor has read all of it that is settled: either it ends there, and
\* parse returns, or it goes on with one more word, and the loop of parse
\* takes its next iteration on it.
VARIABLES
  tokenizer,   \* the Tokenizer of parse, the cursor input_stream in it
  parser,      \* the HtmlParser
  history,     \* what the run did so far
  status,      \* "Running", or how parse ended: "Ok", "Err", "Panic", "Hang"
  words,       \* the number of words of the text settled so far
  xpath,       \* the evaluation of an XPath expression on an item tree
  lexer        \* a call of a helper of the old lexer on a pointer

vars == << tokenizer, parser, history, status, words, xpath, lexer >>

\* no helper was called
NoCall == [pointer |-> [vec |-> << >>, index |-> 0], helper |-> "None",
           has_open_tag |-> FALSE, symbol |-> [type |-> "None", text |-> << >>],
           index_before |-> 0]

\* no expression is being evaluated
NoEvaluation == [tree |-> << >>, steps |-> << >>, at |-> 0,
                 context |-> << >>, context_before |-> << >>]

Init ==
  /\ \E text \in {<< >>} \cup Scenarios :
       /\ tokenizer = set_error_handler(Tokenizer_new(VecPointerRef_new(text)),
                                        "DefaultTokenizerErrorHandler")
       /\ words = IF text = << >> THEN 0 ELSE 1
  /\ parser = HtmlParser_new
  /\ history = History_new
  /\ status = "Running"
  /\ xpath = NoEvaluation
  /\ lexer = NoCall

\* the texts the run may be on when the loop of parse tests is_terminated
\* and goes on: the one settled if the cursor has more of it to read, else
\* the one settled and one more word
Texts ==
  IF has_next(tokenizer.input_stream) THEN {tokenizer.input_stream.vec}
  ELSE IF words < MaxWords
    THEN {tokenizer.input_stream.vec \o w : w \in Vocabulary}
  ELSE {}

\* the state after tokenizer.step() returned m
Stepped(m, vec) ==
  /\ tokenizer' = m.t
  /\ parser' = m.p
  /\ history' = m.h
  /\ status' = IF m.res = "Ok" THEN "Running" ELSE m.res
  /\ words' = IF vec = tokenizer.input_stream.vec THEN words ELSE words + 1
  /\ UNCHANGED << xpath, lexer >>

\* Whether the build has overflow checks is settled by the first step in
\* which it matters: one that is about to leave the u32.
Builds(t) ==
  IF t.overflow_checks = "Any" /\ t.state = "DecimalCharacterReference"
       /\ overflows(t.character_reference_code, next_item(t.input_stream))
    THEN {"On", "Off"}
  ELSE {t.overflow_checks}

\* one iteration of `while !tokenizer.is_terminated() { tokenizer.step()?; }`
Step ==
  /\ status = "Running"
  /\ \E vec \in Texts :
     \E build \in Builds([tokenizer EXCEPT !.input_stream.vec = vec]) :
       Stepped(step([t |-> [tokenizer EXCEPT !.input_stream.vec = vec,
                                            !.overflow_checks = build],
                     p |-> parser,
                     h |-> [history EXCEPT
                              !.fresh = FALSE,
                              !.events = << >>,
                              !.state_before = tokenizer.state,
                              !.index_before = tokenizer.input_stream.index,
                              !.value_before = current_attribute_value(tokenizer)],
                     res |-> "Ok",
                     out |-> << >>,
                     back |-> None]), vec)

\* the loop of parse ends, the tokenizer being terminated, and parse
\* returns the document
ParseReturn ==
  /\ status = "Running"
  /\ ~has_next(tokenizer.input_stream)
  /\ status' = "Ok"
  /\ history' = [history EXCEPT !.fresh = FALSE]
  /\ UNCHANGED << tokenizer, parser, words, xpath, lexer >>

Next == Step \/ ParseReturn

Spec == Init /\ [][Next]_vars

NeverUnmodelled == status # "Unmodelled"

\* ------------------------------------------------------------ properties
\* the tree builder has just finished a token and parse goes on
token_processed == status = "Running" /\ history.fresh

\* the root html element was pushed
html_pushed ==
  \E id \in 1..Len(parser.arena) :
    parser.arena[id].kind = "Element" /\ parser.arena[id].name = "html"

C2_EndOfFileEmitted == status = "Ok" => history.eof_emitted

\* the start tag just processed had its self-closing flag set; the Err
\* the error handler returns ends parse, so the token counts as processed
\* in that state too
self_closing_processed ==
  /\ status \in {"Running", "Err"}
  /\ history.fresh
  /\ history.last_token.type = "StartTag"
  /\ history.last_token.self_closing

\* C3: for a start tag with the self-closing flag, exactly one of the two
\* happens: the flag is acknowledged and no
\* NonVoidHtmlElementStartTagWithTrailingSolidus error is raised, or it is
\* not acknowledged and the error is raised once; also when the token was
\* reprocessed under other insertion modes before it was handled.
C3_AcknowledgedOrError ==
  self_closing_processed =>
    /\ parser.solidus_errors <= 1
    /\ parser.acknowledged => parser.solidus_errors = 0
    /\ status = "Running" => (parser.acknowledged \/ parser.solidus_errors = 1)

\* the elements whose content the tokenizer reads in another state, and
\* that state
TextElements == {"script", "style", "title", "textarea", "noframes"}
text_state_of(name) ==
  IF name = "script" THEN "ScriptData"
  ELSE IF name \in {"style", "noframes"} THEN "RAWTEXT"
  ELSE "RCDATA"

\* the start tag just processed opened a text element: the builder went to
\* Text mode for it
text_element_opened ==
  /\ token_processed
  /\ history.last_token.type = "StartTag"
  /\ history.last_token.tag_name \in TextElements
  /\ history.from # "Text"
  /\ parser.insertion_mode = "Text"

\* C4: when the tree builder has inserted an element for a script, style,
\* title, textarea or noframes start tag, handled in InHead directly or
\* through the rules for InHead from InBody or InTemplate, the tokenizer is
\* in the state of that element when it consumes the next code point.
C4_TokenizerStateSwitched ==
  text_element_opened =>
    tokenizer.state = text_state_of(history.last_token.tag_name)

\* the modes that handle the start tag of a script, style or title
\* themselves or through the rules for InHead, without reprocessing the
\* token in a later mode
DirectModes == {"InHead", "InBody", "InTemplate"}
DirectElements == {"script", "style", "title"}

\* the end tag just processed closed, in Text mode, an element of
\* DirectElements whose start tag arrived in a mode of DirectModes
text_element_closed ==
  /\ token_processed
  /\ history.last_token.type = "EndTag"
  /\ history.from = "Text"
  /\ history.text_entry_mode \in DirectModes
  /\ history.last_token.tag_name \in DirectElements

\* C5: the original insertion mode recorded when a text element is opened
\* is the mode the start tag arrived in, and the end tag processed in Text
\* mode returns the builder to that mode (a title opened in InBody returns
\* to InBody).
C5_ReturnsToArrivalMode ==
  /\ (text_element_opened /\ history.from \in DirectModes
        /\ history.last_token.tag_name \in DirectElements)
       => parser.original_insertion_mode = history.from
  /\ text_element_closed => parser.insertion_mode = history.text_entry_mode

\* ------------------------------------------------------------- the tree
Nodes == 1..Len(parser.arena)
is_element(id, name) ==
  parser.arena[id].kind = "Element" /\ parser.arena[id].name = name

\* the children of a node that are not attribute nodes, in tree order
child_nodes(id) ==
  SelectSeq(parser.arena[id].children,
            LAMBDA k : parser.arena[k].kind # "Attribute")

\* the names of the element children of a node, in tree order
element_children(id) ==
  LET es == SelectSeq(parser.arena[id].children,
                      LAMBDA k : parser.arena[k].kind = "Element")
  IN [i \in 1..Len(es) |-> parser.arena[es[i]].name]

\* the names of the attribute children of a node, in tree order
attribute_children(id) ==
  LET as == SelectSeq(parser.arena[id].children,
                      LAMBDA k : parser.arena[k].kind = "Attribute")
  IN [i \in 1..Len(as) |-> parser.arena[as[i]].name]

\* the node has a text child with exactly this content
has_text(id, data) ==
  \E k \in Nodes : /\ parser.arena[k].kind = "Text"
                   /\ parser.arena[k].parent = id
                   /\ parser.arena[k].value = data

\* parse returned the document of the mis-nested formatting text
mis_nested_parsed == status = "Ok" /\ tokenizer.input_stream.vec = MisNested

\* C6: <p>1<b>2<i>3</p>4</i>5</b> yields a p with the text 1 and a b, the b
\* with the text 2 and an i with the text 3; and, outside the p, an i with
\* the text 4 and a b with the text 5.
C6_MisNestedFormatting ==
  mis_nested_parsed =>
    \E p1, b1, i1, i2, b2 \in Nodes :
      /\ is_element(p1, "p") /\ has_text(p1, "1")
      /\ is_element(b1, "b") /\ parser.arena[b1].parent = p1 /\ has_text(b1, "2")
      /\ is_element(i1, "i") /\ parser.arena[i1].parent = b1 /\ has_text(i1, "3")
      /\ is_element(i2, "i") /\ has_text(i2, "4")
      /\ is_element(b2, "b") /\ has_text(b2, "5")
      /\ parser.arena[i2].parent \notin {p1, b1, i1}
      /\ parser.arena[b2].parent \notin {p1, b1, i1}

\* C7: the document parse returns has exactly one element child, html,
\* whose element children are one head followed by one body.
C7_HtmlHeadBody ==
  status = "Ok" =>
    /\ element_children(root_node) = << "html" >>
    /\ \A id \in Nodes :
         (is_element(id, "html") /\ parser.arena[id].parent = root_node)
           => element_children(id) = << "head", "body" >>

\* C8: when the end tag of a script, style or title was processed in Text
\* mode, the stack of open elements is what it was just before the start
\* tag of the element.
C8_StackRestored ==
  text_element_closed => parser.open_elements = history.text_entry_stack

C10_AttributeOrder ==
  \A id \in Nodes :
    parser.arena[id].kind = "Element" =>
      /\ Len(attribute_children(id)) >= Len(parser.arena[id].written)
      /\ SubSeq(attribute_children(id), 1, Len(parser.arena[id].written))
           = parser.arena[id].written

\* C11: the attributes of an element are pairwise distinct by name.
C11_AttributesDistinct ==
  \A id \in Nodes :
    parser.arena[id].kind = "Element" =>
      \A i, j \in 1..Len(attribute_children(id)) :
        attribute_children(id)[i] = attribute_children(id)[j] => i = j

\* the tree builder was given a token, whether it finished it or not
token_handled == history.fresh /\ status \in {"Running", "Err", "Panic"}

\* stack is kept: the first k entries of it, in order, followed by entries
\* that were not in the stack before the token
popped_and_pushed(kept, k) ==
  /\ Len(parser.open_elements) >= k
  /\ SubSeq(parser.open_elements, 1, k) = SubSeq(kept, 1, k)
  /\ \A i \in (k + 1)..Len(parser.open_elements) :
       ~contains(history.stack_before, parser.open_elements[i])

\* C12 as stated: a token takes entries off the stack of open elements
\* from the top only, and the entries that stay keep their order.
C12_OnlyPoppedFromTop ==
  token_handled =>
    \E k \in 0..Len(history.stack_before) :
      popped_and_pushed(history.stack_before, k)

\* C12, amended: a token takes entries off the stack from the top only,
\* except that the form end tag takes the form element out from wherever
\* it is; the entries that stay keep their order.
C12_PoppedFromTopOrFormRemoved ==
  token_handled =>
    \/ \E k \in 0..Len(history.stack_before) :
         popped_and_pushed(history.stack_before, k)
    \/ /\ is_end_tag(history.last_token, {"form"})
       /\ \E i \in 1..Len(history.stack_before) :
            /\ name_of(parser, history.stack_before[i]) = "form"
            /\ \E k \in 0..(Len(history.stack_before) - 1) :
                 popped_and_pushed(
                   Remove(history.stack_before, history.stack_before[i]), k)

\* C12 happens: the form end tag took the form element from below the top
C12_Witness ==
  /\ token_processed
  /\ is_end_tag(history.last_token, {"form"})
  /\ Len(parser.open_elements) = Len(history.stack_before) - 1
  /\ parser.open_elements
       # SubSeq(history.stack_before, 1, Len(history.stack_before) - 1)

\* C13: a run of the adoption agency algorithm takes at most 8 iterations
\* of its outer loop, and at most 3 iterations of the loop nested in it
\* per outer iteration.
C13_AdoptionAgencyBounded ==
  /\ parser.outer_loop_counter <= 8
  /\ parser.inner_loop_iterations <= 3

\* ------------------------------------------------ the tree builder alone
\* Parser::token_emitted is the entry of the tree builder.  Under TreeSpec
\* it is handed tokens one by one without a tokenizer, the end-of-file
\* token among them; tokenizer stays the one of the empty text.
Tokens ==
  {TagToken("StartTag", n) : n \in {"html", "head", "body", "p", "template"}}
  \cup {TagToken("EndTag", n) : n \in {"html", "body", "p"}}
  \cup {Character("1"), Character(" "), Character("NULL"), CommentToken("1"),
        DocTypeToken("html"), EndOfFile}

TreeInit ==
  /\ tokenizer = Tokenizer_new(VecPointerRef_new(<< >>))
  /\ parser = HtmlParser_new
  /\ history = History_new
  /\ status = "Running"
  /\ words = 0
  /\ xpath = NoEvaluation
  /\ lexer = NoCall

\* self.parser.token_emitted(token)? with the token given
TokenEmitted ==
  /\ status = "Running"
  /\ words < MaxTokens
  /\ \E token \in Tokens :
       /\ parser' = token_emitted([parser EXCEPT !.acknowledged = FALSE,
                                                 !.solidus_errors = 0,
                                                 !.minor_errors = 0], token)
       /\ history' = emitted_history(history, token, parser.insertion_mode,
                                     parser.open_elements,
                                     parser.active_formatting_elements, parser')
       /\ status' = IF parser'.res = "Ok" THEN "Running" ELSE parser'.res
  /\ words' = words + 1
  /\ UNCHANGED << tokenizer, xpath, lexer >>

TreeNext == TokenEmitted

TreeSpec == TreeInit /\ [][TreeNext]_vars

\* the end-of-file token was handled by a handler that stops parsing
stopped_parsing ==
  /\ token_processed
  /\ history.last_token.type = "EndOfFile"

comment_handled == history.fresh /\ history.last_token.type = "Comment"

\* the node the comment of the last token belongs under: the Document
\* before the html element is open, the current node of that moment after
comment_parent ==
  IF history.stack_before = << >> THEN root_node
  ELSE history.stack_before[Len(history.stack_before)]

\* C15: a comment token never aborts the parse and is never lost: it
\* becomes the last child of the Document while no html element is open,
\* and the last child of the current node once one is.
C15_CommentInserted ==
  comment_handled =>
    /\ status = "Running"
    /\ child_nodes(comment_parent) # << >>
    /\ LET last == child_nodes(comment_parent)[Len(child_nodes(comment_parent))]
       IN /\ parser.arena[last].kind = "Comment"
          /\ parser.arena[last].value = history.last_token.c

\* the text starts with the DOCTYPE declaration d and the cursor is in it,
\* or just behind it
consuming(d) ==
  /\ Len(tokenizer.input_stream.vec) >= Len(d)
  /\ SubSeq(tokenizer.input_stream.vec, 1, Len(d)) = d
  /\ tokenizer.input_stream.index <= Len(d) + 1

doctype_being_consumed == \E d \in Doctypes : consuming(d)

\* C16: a DOCTYPE declaration at the start of the text, with or without
\* PUBLIC or SYSTEM identifiers, is consumed without aborting the parse and
\* without producing a node.
C16_DoctypeConsumed ==
  doctype_being_consumed =>
    /\ status \in {"Running", "Ok"}
    /\ Len(parser.arena) = 1

\* ------------------------------------------------- character references
\* r is a named reference of the table that ends in a semicolon
is_named_reference(r) == r \in DOMAIN NAMED_CHARACTER_REFS /\ r[Len(r)] = ";"

\* r is a decimal numeric reference: "&#", digits, ";"
is_decimal_reference(r) ==
  /\ Len(r) >= 4
  /\ r[1] = "&" /\ r[2] = "#" /\ r[Len(r)] = ";"
  /\ \A i \in 3..(Len(r) - 1) : is_ascii_digit(r[i])

RECURSIVE decimal_value(_, _)
\* the number the digits r[3..i] spell, or 0x110000 if it is greater
decimal_value(r, i) ==
  IF i < 3 THEN 0
  ELSE IF decimal_value(r, i - 1) * 10 + DigitValue[r[i]] > 1114111 THEN 1114112
  ELSE decimal_value(r, i - 1) * 10 + DigitValue[r[i]]

\* the number a decimal reference denotes
denoted(r) == decimal_value(r, Len(r) - 1)

\* zero, a surrogate or past 0x10FFFF: U+FFFD is to stand for it
replaced_by_replacement_character(v) == v = 0 \/ v > 1114111 \/ is_surrogate(v)

\* a code point a numeric reference may denote without a parse error
plain_code_point(v) ==
  /\ ~replaced_by_replacement_character(v)
  /\ ~is_noncharacter(v)
  /\ ~(v = 13 \/ (is_control(v) /\ ~is_ascii_whitespace(v)))

\* r is a matched character reference: a named one ending in a semicolon
\* or a decimal one that denotes a code point
is_matched_reference(r) ==
  \/ is_named_reference(r)
  \/ is_decimal_reference(r) /\ plain_code_point(denoted(r))

\* the code points a matched reference denotes
code_points_of(r) ==
  IF is_named_reference(r) THEN NAMED_CHARACTER_REFS[r]
  ELSE << from_u32(to_u32(denoted(r))) >>

\* parse returned the document of the text
parsed(text) == status = "Ok" /\ tokenizer.input_stream.vec = text

\* the document has a text node with the data given
text_node(data) ==
  \E k \in Nodes : parser.arena[k].kind = "Text" /\ parser.arena[k].value = data

\* the document has an attribute node with the value given
attribute_node(value) ==
  \E k \in Nodes : parser.arena[k].kind = "Attribute" /\ parser.arena[k].value = value

\* C17: a matched character reference is replaced by the code points it
\* denotes: in text they are the data of a text node of the document, in an
\* attribute value they are the value of the attribute.
C17_ReferenceReplaced ==
  \A r \in References :
    is_matched_reference(r) =>
      /\ parsed(r) => text_node(concat(code_points_of(r)))
      /\ parsed(Quoted(r)) => attribute_node(concat(code_points_of(r)))

\* a matched reference that the text continues after, or that stands in an
\* attribute value, is replaced by the code points it denotes
ReferenceReplacedBeforeMoreText ==
  \A r \in References :
    is_matched_reference(r) =>
      /\ parsed(r \o << "1" >>) => text_node(concat(code_points_of(r)) \o "1")
      /\ parsed(Quoted(r)) => attribute_node(concat(code_points_of(r)))

\* the source characters the step just taken consumed as a reference: the
\* "&" that led to the CharacterReference state and the items behind it
consumed_reference ==
  << "&" >> \o SubSeq(tokenizer.input_stream.vec, history.index_before,
                      tokenizer.input_stream.index - 1)

\* the step just taken matched, inside an attribute value, a named reference
\* that does not end in ";" and that "=" or an alphanumeric follows
unterminated_match_in_attribute ==
  /\ history.state_before = "CharacterReference"
  /\ charref_in_attribute(tokenizer)
  /\ consumed_reference \in DOMAIN NAMED_CHARACTER_REFS
  /\ consumed_reference[Len(consumed_reference)] # ";"
  /\ has_next(tokenizer.input_stream)
  /\ \/ next_item(tokenizer.input_stream) = "="
     \/ is_ascii_alphanumeric(next_item(tokenizer.input_stream))

\* C18: a named reference matched inside an attribute value, not ending in
\* ";" and followed by "=" or an alphanumeric, is not expanded: the attribute
\* value receives "&" and the matched name, once, and tokenizing resumes in
\* the return state.
C18_UnterminatedReferenceKept ==
  unterminated_match_in_attribute =>
    /\ status = "Running"
    /\ current_attribute_value(tokenizer)
         = history.value_before \o concat(consumed_reference)
    /\ tokenizer.state = tokenizer.return_state

\* the tokenizer is reading reference r, which the text holds from item k,
\* or has just resolved it
reference_at(r, k) ==
  /\ k + Len(r) - 1 <= Len(tokenizer.input_stream.vec)
  /\ SubSeq(tokenizer.input_stream.vec, k, k + Len(r) - 1) = r
  /\ tokenizer.input_stream.index \in (k + 1)..(k + Len(r))

\* a multiplication of the accumulator has overflowed its 32 bits
accumulator_overflowed == tokenizer.overflow_checks # "Any"

\* the step just taken resolved a numeric reference to the code points cs
resolved_to(cs) ==
  IF charref_in_attribute(tokenizer)
  THEN current_attribute_value(tokenizer) = history.value_before \o concat(cs)
  ELSE history.events = [i \in 1..Len(cs) |-> TokenEvent(Character(cs[i]))]

\* C19: a decimal reference of any number of digits never overflows the
\* 32-bit accumulator and never aborts the parse, and one whose value is
\* zero, a surrogate or greater than 0x10FFFF yields exactly U+FFFD.
C19_DecimalReferenceSafe ==
  \A r \in References : \A k \in 1..Len(tokenizer.input_stream.vec) :
    is_decimal_reference(r) /\ reference_at(r, k) =>
      /\ status \in {"Running", "Ok"}
      /\ ~accumulator_overflowed
      /\ history.state_before = "NumericCharacterReferenceEnd"
           /\ replaced_by_replacement_character(denoted(r))
           => resolved_to(<< "FEED_REPLACEMENT_CHARACTER" >>)

\* ------------------------------------------------- U+0000 in the Data state
\* the step just taken began in the Data state and consumed U+0000
null_consumed_in_data ==
  /\ history.state_before = "Data"
  /\ tokenizer.input_stream.index = history.index_before + 1
  /\ tokenizer.input_stream.vec[history.index_before] = "NULL"

\* C20 as stated: U+0000 consumed in the Data state is emitted as a
\* character token that carries U+0000 and an UnexpectedNullCharacter error
\* is reported, the emission first.
C20_NullEmittedThenReported ==
  null_consumed_in_data =>
    history.events = << TokenEvent(Character("NULL")),
                        ErrorEvent("UnexpectedNullCharacter") >>

\* C20: U+0000 consumed in the Data state is reported as an
\* UnexpectedNullCharacter error and emitted as a character token that
\* carries U+0000, not U+FFFD: the report first, the emission second.
C20_NullReportedThenEmitted ==
  null_consumed_in_data =>
    history.events = << ErrorEvent("UnexpectedNullCharacter"),
                        TokenEvent(Character("NULL")) >>

\* a step consumed U+0000 in the Data state, reported and emitted
C20_NullConsumed ==
  /\ null_consumed_in_data
  /\ Len(history.events) = 2
  /\ history.last_token = Character("NULL")

\* ------------------------------------------- end tags in RCDATA and the like
EndTagNameStates ==
  {"RCDATAEndTagName", "RAWTEXTEndTagName", "ScriptDataEndTagName"}

\* the content state an end-tag-name state returns to
content_state_of(st) ==
  IF st = "RCDATAEndTagName" THEN "RCDATA"
  ELSE IF st = "RAWTEXTEndTagName" THEN "RAWTEXT"
  ELSE "ScriptData"

\* the step just taken began in an end-tag-name state and consumed
\* whitespace, "/" or ">"
end_tag_name_ended ==
  /\ history.state_before \in EndTagNameStates
  /\ history.index_before <= Len(tokenizer.input_stream.vec)
  /\ tokenizer.input_stream.vec[history.index_before]
       \in Whitespace \cup {"/", ">"}

\* where the "/" of the "</" before the cursor of that step is
solidus_before ==
  CHOOSE j \in 0..history.index_before :
    /\ j = 0 \/ (j < history.index_before /\ tokenizer.input_stream.vec[j] = "/")
    /\ \A k \in (j + 1)..(history.index_before - 1) :
         tokenizer.input_stream.vec[k] # "/"

\* the characters of the name as the text spells them
name_characters ==
  SubSeq(tokenizer.input_stream.vec, solidus_before + 1, history.index_before - 1)

\* the name in lower case
name_read ==
  concat([i \in 1..Len(name_characters) |-> to_ascii_lowercase(name_characters[i])])

\* the name is the name of the last emitted start tag
name_is_appropriate ==
  /\ tokenizer.last_emitted_start_tag # NoToken
  /\ tokenizer.last_emitted_start_tag.tag_name = name_read

\* a step that began in one of the states that read an end tag in RCDATA,
\* RAWTEXT or script data
TextEndTagStates ==
  {"RCDATALessThanSign", "RCDATAEndTagOpen", "RCDATAEndTagName",
   "RAWTEXTLessThanSign", "RAWTEXTEndTagOpen", "RAWTEXTEndTagName",
   "ScriptDataLessThanSign", "ScriptDataEndTagOpen", "ScriptDataEndTagName"}

\* in the end-tag-name states that are reached, the appropriate name, and
\* only it, gives an end tag token, and any other one gives back the
\* characters consumed and the content state
AppropriateEndTagWhereRead ==
  end_tag_name_ended =>
    LET c == tokenizer.input_stream.vec[history.index_before]
    IN IF name_is_appropriate
         THEN IF c = ">"
                THEN history.events
                       = << TokenEvent(TagToken("EndTag", name_read)) >>
              ELSE /\ history.events = << >>
                   /\ tokenizer.tag_token = TagToken("EndTag", name_read)
       ELSE /\ history.events =
                 [i \in 1..(Len(name_characters) + 3) |->
                    TokenEvent(Character(
                      (<< "<", "/" >> \o name_characters \o << c >>)[i]))]
            /\ tokenizer.state = content_state_of(history.state_before)

\* C21: "</name" followed by whitespace, "/" or ">" in RCDATA, RAWTEXT or
\* script data gives an end tag token if and only if name is the name of
\* the last emitted start tag; otherwise the characters consumed are
\* emitted as character tokens and the tokenizer is back in the content
\* state.  The states that read the end tag do not end the parse.
C21_AppropriateEndTag ==
  /\ history.state_before \in TextEndTagStates => status \in {"Running", "Ok"}
  /\ AppropriateEndTagWhereRead

\* ------------------------------------------------ tree-builder parse errors
\* the parse errors the tree builder raised for the token it processed
\* last, and those of them that reached ParseErrorHandler::error_emitted
errors_raised == parser.minor_errors + parser.solidus_errors
errors_delivered == parser.solidus_errors

\* C22: every parse error of the tree builder is delivered to the error
\* handler, and the parse goes on or ends as the handler answers: the
\* handler of HtmlParser::new answers every error with Err.
C22_ErrorsDelivered ==
  /\ errors_delivered = errors_raised
  /\ errors_raised > 0 => status = "Err"

\* ------------------------------------------------------------ XPath
\* the evaluation of a path expression on an XpathItemTree.  A tree is the
\* sequence of its nodes in the order the arena got them, which is document
\* order: every node is created before its children

\* the largest number of nodes below the html element of a generated tree
MaxElements == 3
\* the largest integer of a predicate
MaxIndex == 2
\* the largest number of predicates of a step
MaxPredicates == 2

XpathDocumentNode == [kind |-> "DocumentNode", name |-> "", parent |-> 0]
ElementNode(name, parent) == [kind |-> "ElementNode", name |-> name, parent |-> parent]
TextNode(content, parent) == [kind |-> "TextNode", name |-> content, parent |-> parent]

\* what a node below the html element may be: an element of one of two
\* names, or a text
NodeChoices == {"div", "p", "#text"}

\* the depths, below the html element, of k nodes listed in document order
TreeShapes(k) ==
  { d \in [1..k -> 1..k] :
      \A i \in 1..k : d[i] <= (IF i = 1 THEN 0 ELSE d[i - 1]) + 1 }

\* the handle of the parent of the i-th node below html: html itself, of
\* handle 2, or the last node before it that is one level higher
parent_handle(d, i) ==
  IF d[i] = 1 THEN 2
  ELSE 2 + (CHOOSE j \in 1..(i - 1) :
              /\ d[j] = d[i] - 1
              /\ \A l \in (j + 1)..(i - 1) : d[l] # d[i] - 1)

\* XpathItemTree::from: the document node, the root element, and the nodes
\* below it, each appended to its parent in document order
XpathItemTree_from(d, choice) ==
  << XpathDocumentNode, ElementNode("html", 1) >> \o
  [i \in DOMAIN d |->
     IF choice[i] = "#text" THEN TextNode("1", parent_handle(d, i))
     ELSE ElementNode(choice[i], parent_handle(d, i))]

\* only elements and the document have children
well_formed(tree) ==
  \A i \in DOMAIN tree :
    tree[i].parent # 0 => tree[tree[i].parent].kind # "TextNode"

\* the document of the test of indexed children: two div elements, each of
\* three p elements holding the texts 1, 2, 3 and 4, 5, 6
IndexedChildrenTree ==
  << XpathDocumentNode, ElementNode("html", 1),
     ElementNode("div", 2),
     ElementNode("p", 3), TextNode("1", 4),
     ElementNode("p", 3), TextNode("2", 6),
     ElementNode("p", 3), TextNode("3", 8),
     ElementNode("div", 2),
     ElementNode("p", 10), TextNode("4", 11),
     ElementNode("p", 10), TextNode("5", 13),
     ElementNode("p", 10), TextNode("6", 15) >>

\* a div element inside a div element, each with a p child
NestedTree ==
  << XpathDocumentNode, ElementNode("html", 1),
     ElementNode("div", 2),
     ElementNode("div", 3), ElementNode("p", 4),
     ElementNode("p", 3) >>

ItemTrees ==
  { tree \in UNION { { XpathItemTree_from(d, choice) :
                         d \in TreeShapes(k), choice \in [1..k -> NodeChoices] } :
                     k \in 0..MaxElements } :
      well_formed(tree) }
  \cup { IndexedChildrenTree, NestedTree }

\* a step of a path: an axis, a node test and predicates
AxisStep(axis, node_test, predicates) ==
  [axis |-> axis, node_test |-> node_test, predicates |-> predicates]

\* the test of a name, and the kind test node()
NameTest(name) == [type |-> "NameTest", name |-> name]
AnyKindTest == [type |-> "KindTest", name |-> "node()"]

\* the lists of integer predicates a step may have
PredicateLists ==
  UNION { [1..k -> 1..MaxIndex] : k \in 0..MaxPredicates }

\* the expressions evaluated: //a[..] and //a/b[..], where // stands for
\* /descendant-or-self::node()/
Expressions ==
  { << AxisStep("descendant-or-self", AnyKindTest, << >>),
       AxisStep("child", NameTest(a), predicates) >> :
      a \in {"div", "p"}, predicates \in PredicateLists }
  \cup
  { << AxisStep("descendant-or-self", AnyKindTest, << >>),
       AxisStep("child", NameTest("div"), << >>),
       AxisStep("child", NameTest(b), predicates) >> :
      b \in {"div", "p"}, predicates \in PredicateLists }

\* the handles of a tree, in document order
handles(tree) == [i \in DOMAIN tree |-> i]

RECURSIVE is_descendant_or_self(_, _, _)
is_descendant_or_self(tree, node, of) ==
  \/ node = of
  \/ node # 0 /\ is_descendant_or_self(tree, tree[node].parent, of)

\* the nodes on an axis from a context node, in document order
axis_nodes(tree, node, axis) ==
  IF axis = "child"
  THEN SelectSeq(handles(tree), LAMBDA i : tree[i].parent = node)
  ELSE SelectSeq(handles(tree), LAMBDA i : is_descendant_or_self(tree, i, node))

\* NameTest::is_match: a name test matches element nodes only, those of
\* the unprefixed name
NameTest_is_match(test, node) ==
  IF node.kind # "ElementNode" THEN FALSE ELSE test.name = node.name

\* NodeTest::is_match
NodeTest_is_match(test, node) ==
  IF test.type = "KindTest" THEN TRUE ELSE NameTest_is_match(test, node)

\* ForwardStep::eval: the nodes on the axis from the context item that
\* pass the node test
ForwardStep_eval(tree, context, axis_step) ==
  SelectSeq(axis_nodes(tree, context.items[context.position], axis_step.axis),
            LAMBDA i : NodeTest_is_match(axis_step.node_test, tree[i]))

\* XPathExpressionContext::new
XPathExpressionContext_new(tree, items, place) ==
  [item_tree |-> tree, items |-> items, position |-> place]

\* Predicate::is_match of an integer predicate: the context position is
\* the integer
Predicate_is_match(predicate, context) == context.position = predicate

\* AxisStep::eval: with predicates, an item of the step's result is kept
\* when every predicate matches in the one context made for the item, its
\* position being the item's place in the whole result
AxisStep_eval_zero_based(tree, context, axis_step) ==
  LET items == ForwardStep_eval(tree, context, axis_step)
      kept == SelectSeq([i \in DOMAIN items |-> i],
                LAMBDA i :
                  \A k \in DOMAIN axis_step.predicates :
                    Predicate_is_match(axis_step.predicates[k],
                      XPathExpressionContext_new(tree, items, i - 1)))
  IN  IF axis_step.predicates = << >> THEN items
      ELSE [j \in DOMAIN kept |-> items[kept[j]]]
AxisStep_eval(tree, context, axis_step) ==
  LET items == ForwardStep_eval(tree, context, axis_step)
      kept == SelectSeq([i \in DOMAIN items |-> i],
                LAMBDA i :
                  \A k \in DOMAIN axis_step.predicates :
                    Predicate_is_match(axis_step.predicates[k],
                      XPathExpressionContext_new(tree, items, (i - 1) + 1)))
  IN  IF axis_step.predicates = << >> THEN items
      ELSE [j \in DOMAIN kept |-> items[kept[j]]]

\* the members of a sequence
members(seq) == { seq[i] : i \in DOMAIN seq }

\* an item set in document order, without duplicates
RECURSIVE document_order(_)
document_order(set) ==
  IF set = {} THEN << >>
  ELSE LET first == CHOOSE i \in set : \A j \in set : i <= j
       IN  << first >> \o document_order(set \ {first})

\* a step of the fold of a path: the step is evaluated for every item of
\* the context set, and the results make the next context set
step_applied(tree, items, axis_step) ==
  document_order(UNION { members(AxisStep_eval(tree,
                            XPathExpressionContext_new(tree, items, place), axis_step)) :
                         place \in DOMAIN items })

XPathInit ==
  /\ tokenizer = Tokenizer_new(VecPointerRef_new(<< >>))
  /\ parser = HtmlParser_new
  /\ history = History_new
  /\ status = "Running"
  /\ words = 0
  /\ lexer = NoCall
  /\ \E tree \in ItemTrees, steps \in Expressions :
       xpath = [tree |-> tree, steps |-> steps, at |-> 0,
                context |-> << 1 >>, context_before |-> << >>]

\* the next step of the expression is applied to the context set
EvalStep ==
  /\ xpath.at < Len(xpath.steps)
  /\ xpath' = [xpath EXCEPT
                 !.at = @ + 1,
                 !.context_before = xpath.context,
                 !.context = step_applied(xpath.tree, xpath.context,
                                          xpath.steps[xpath.at + 1])]
  /\ UNCHANGED << tokenizer, parser, history, status, words, lexer >>

XPathNext == EvalStep

XPathSpec == XPathInit /\ [][XPathNext]_vars

\* the step just applied, and the candidates it has from a context item
step_taken == xpath.steps[xpath.at]
candidates(place) ==
  ForwardStep_eval(xpath.tree,
                   XPathExpressionContext_new(xpath.tree, xpath.context_before, place),
                   step_taken)

\* the items a predicate keeps of a sequence, positions being those of
\* the sequence
filtered(items, predicate) ==
  LET kept == SelectSeq([i \in DOMAIN items |-> i],
                LAMBDA i : Predicate_is_match(predicate,
                             XPathExpressionContext_new(xpath.tree, items, i)))
  IN  [j \in DOMAIN kept |-> items[kept[j]]]

\* the items that survive the predicates one after the other
RECURSIVE survivors(_, _)
survivors(items, predicates) ==
  IF predicates = << >> THEN items
  ELSE survivors(filtered(items, Head(predicates)), Tail(predicates))

\* C23: a step with several predicates keeps, of a context item's
\* candidates, those that survive the predicates one after the other, each
\* predicate seeing the positions of the sequence the preceding predicates
\* left (p[2][1] selects the second p)
C23_PredicatesChained ==
  xpath.at > 0 =>
    xpath.context =
      document_order(UNION { members(survivors(candidates(place),
                                                step_taken.predicates)) :
                             place \in DOMAIN xpath.context_before })

\* a step with the predicates [2][1] was applied from a context item with
\* two candidates
second_then_first ==
  /\ xpath.at > 0
  /\ step_taken.predicates = << 2, 1 >>
  /\ \E place \in DOMAIN xpath.context_before : Len(candidates(place)) >= 2

\* C24: a step with the one integer predicate n keeps, for each context
\* item separately, exactly the n-th of the item's candidates that pass the
\* node test, the results of all context items coming in document order;
\* //div/p[2] on the tree of indexed children gives the p elements holding
\* the texts 2 and 5, in that order
C24_IndexedChild ==
  /\ xpath.at > 0 /\ Len(step_taken.predicates) = 1 =>
       /\ members(xpath.context) =
            { candidates(place)[step_taken.predicates[1]] :
                place \in { q \in DOMAIN xpath.context_before :
                              step_taken.predicates[1] <= Len(candidates(q)) } }
       /\ \A i, j \in DOMAIN xpath.context : i < j => xpath.context[i] < xpath.context[j]
  /\ ( /\ xpath.tree = IndexedChildrenTree
       /\ xpath.at = 3
       /\ step_taken = AxisStep("child", NameTest("p"), << 2 >>) ) =>
       xpath.context = << 6, 13 >>

\* //div/p[2] was evaluated on the tree of indexed children
indexed_children_selected ==
  /\ xpath.tree = IndexedChildrenTree
  /\ xpath.at = 3
  /\ step_taken = AxisStep("child", NameTest("p"), << 2 >>)
  /\ Len(xpath.context) = 2

\* ------------------------------------------------------------ old lexer
\* the helpers of the old lexer, each called on a pointer into a vector of
\* characters.  The index of a VecPointer counts from 0

\* the longest text made of any characters
MaxChars == 3

LexerChars == {"<", "!", "-", ">", "/", "=", "\"", "'", "\\", " ", "a"}

VecPointer_new(vec) == [vec |-> vec, index |-> 0]
VecPointer_get(pointer, i) ==
  IF i < Len(pointer.vec) THEN pointer.vec[i + 1] ELSE None
VecPointer_current(pointer) == VecPointer_get(pointer, pointer.index)
VecPointer_peek(pointer) == VecPointer_get(pointer, pointer.index + 1)
VecPointer_peek_add(pointer, i) == VecPointer_get(pointer, pointer.index + i)
\* the pointer moves, also past the end, and the item it is on is read
VecPointer_next_add(pointer, i) == [pointer EXCEPT !.index = @ + i]
VecPointer_next(pointer) == VecPointer_next_add(pointer, 1)

Symbol(type, text) == [type |-> type, text |-> text]
\* the None of an Option<Symbol>
NoSymbol == Symbol("None", << >>)

\* what a helper did: where the pointer is, and the symbol or None
Returned(pointer, symbol) == [pointer |-> pointer, symbol |-> symbol]

\* loop { match pointer.next() { a stop or None => break, Some(c) => push } }
RECURSIVE read_until(_, _, _)
read_until(pointer, stops, text) ==
  IF VecPointer_current(VecPointer_next(pointer)) \in stops \cup {None}
  THEN [pointer |-> VecPointer_next(pointer), text |-> text]
  ELSE read_until(VecPointer_next(pointer), stops,
                  Append(text, VecPointer_current(VecPointer_next(pointer))))

helpers_is_start_tag(pointer) ==
  IF VecPointer_current(pointer) = "<" /\ VecPointer_peek(pointer) # None
  THEN IF VecPointer_peek(pointer) # "/"
       THEN Returned(read_until(pointer, {" ", ">", "/"}, << >>).pointer,
                     Symbol("StartTag", read_until(pointer, {" ", ">", "/"}, << >>).text))
       ELSE Returned(pointer, NoSymbol)
  ELSE Returned(pointer, NoSymbol)

helpers_is_end_tag(pointer) ==
  IF VecPointer_current(pointer) = "<" /\ VecPointer_peek(pointer) = "/"
  THEN Returned(read_until(VecPointer_next(pointer), {" ", ">"}, << >>).pointer,
                Symbol("EndTag", read_until(VecPointer_next(pointer), {" ", ">"}, << >>).text))
  ELSE Returned(pointer, NoSymbol)

\* is_end_comment returns a bool
helpers_is_end_comment(pointer) ==
  IF /\ VecPointer_current(pointer) = "-"
     /\ VecPointer_peek(pointer) = "-"
     /\ VecPointer_peek_add(pointer, 2) = ">"
  THEN Returned(VecPointer_next_add(pointer, 3), Symbol("true", << >>))
  ELSE Returned(pointer, Symbol("false", << >>))

\* while let Some(c) = pointer.next() { if is_end_comment(pointer) { return
\* the comment } text.push(c) }, and None after the loop
RECURSIVE comment_text(_, _)
comment_text(pointer, text) ==
  IF VecPointer_current(VecPointer_next(pointer)) = None
  THEN Returned(VecPointer_next(pointer), NoSymbol)
  ELSE IF helpers_is_end_comment(VecPointer_next(pointer)).symbol.type = "true"
       THEN Returned(helpers_is_end_comment(VecPointer_next(pointer)).pointer,
                     Symbol("Comment", text))
       ELSE comment_text(VecPointer_next(pointer),
                         Append(text, VecPointer_current(VecPointer_next(pointer))))

helpers_is_comment(pointer) ==
  IF /\ VecPointer_current(pointer) = "<"
     /\ VecPointer_peek(pointer) = "!"
     /\ VecPointer_peek_add(pointer, 2) = "-"
     /\ VecPointer_peek_add(pointer, 3) = "-"
  THEN comment_text(VecPointer_next_add(pointer, 3), << >>)
  ELSE Returned(pointer, NoSymbol)

helpers_is_tag_close(pointer) ==
  IF VecPointer_current(pointer) = ">"
  THEN Returned(VecPointer_next(pointer), Symbol("TagClose", << >>))
  ELSE Returned(pointer, NoSymbol)

helpers_is_tag_close_and_end(pointer) ==
  IF VecPointer_current(pointer) = "/" /\ VecPointer_peek(pointer) = ">"
  THEN Returned(VecPointer_next_add(pointer, 2), Symbol("TagCloseAndEnd", << >>))
  ELSE Returned(pointer, NoSymbol)

helpers_is_assignment_sign(pointer) ==
  IF VecPointer_current(pointer) = "="
  THEN Returned(VecPointer_next(pointer), Symbol("AssignmentSign", << >>))
  ELSE Returned(pointer, NoSymbol)

\* the loop of is_literal: a backslash sets escape, the starting quote not
\* escaped ends the literal, any other character is pushed
RECURSIVE literal_text(_, _, _, _)
literal_text(pointer, start_quote, escape, text) ==
  IF VecPointer_current(VecPointer_next(pointer)) = None
  THEN [pointer |-> VecPointer_next(pointer), text |-> text]
  ELSE IF VecPointer_current(VecPointer_next(pointer)) = "\\"
  THEN literal_text(VecPointer_next(pointer), start_quote, TRUE, text)
  ELSE IF ~escape /\ VecPointer_current(VecPointer_next(pointer)) = start_quote
  THEN [pointer |-> VecPointer_next(pointer), text |-> text]
  ELSE literal_text(VecPointer_next(pointer), start_quote, FALSE,
                    Append(text, VecPointer_current(VecPointer_next(pointer))))

helpers_is_literal(pointer, has_open_tag) ==
  IF ~has_open_tag THEN Returned(pointer, NoSymbol)
  ELSE IF VecPointer_current(pointer) \in {"\"", "'"}
  THEN Returned(VecPointer_next(literal_text(pointer, VecPointer_current(pointer),
                                             FALSE, << >>).pointer),
                Symbol("Literal", literal_text(pointer, VecPointer_current(pointer),
                                               FALSE, << >>).text))
  ELSE Returned(pointer, NoSymbol)

INAVLID_ID_CHARS == {" ", "<", ">", "/", "=", "\""}

helpers_is_identifier(pointer, has_open_tag) ==
  IF ~has_open_tag THEN Returned(pointer, NoSymbol)
  ELSE IF VecPointer_current(pointer) \notin INAVLID_ID_CHARS \cup {None}
  THEN Returned(read_until(pointer, INAVLID_ID_CHARS, << >>).pointer,
                Symbol("Identifier", << VecPointer_current(pointer) >> \o
                                     read_until(pointer, INAVLID_ID_CHARS, << >>).text))
  ELSE Returned(pointer, NoSymbol)

INAVLID_TEXT_CHARS == {"<", ">"}

\* char::is_whitespace, on the characters of the texts
char_is_whitespace(c) == c = " "

\* has_non_whitespace is set by the characters pushed in the loop, the
\* first character of the text not being one of them; without it the
\* pointer is rolled back to where it started
helpers_is_text(pointer, has_open_tag) ==
  IF has_open_tag THEN Returned(pointer, NoSymbol)
  ELSE IF VecPointer_current(pointer) \notin INAVLID_TEXT_CHARS \cup {None}
  THEN IF \E i \in DOMAIN read_until(pointer, INAVLID_TEXT_CHARS, << >>).text :
            ~char_is_whitespace(read_until(pointer, INAVLID_TEXT_CHARS, << >>).text[i])
       THEN Returned(read_until(pointer, INAVLID_TEXT_CHARS, << >>).pointer,
                     Symbol("Text", << VecPointer_current(pointer) >> \o
                                    read_until(pointer, INAVLID_TEXT_CHARS, << >>).text))
       ELSE Returned([read_until(pointer, INAVLID_TEXT_CHARS, << >>).pointer
                        EXCEPT !.index = pointer.index], NoSymbol)
  ELSE Returned(pointer, NoSymbol)

\* texts longer than MaxChars: a comment, a comment that is not closed, a
\* literal with an escaped quote
LexerScenarios ==
  { << "<", "!", "-", "-", "a", "-", "-", ">" >>,
    << "<", "!", "-", "-", "a", "-", ">" >>,
    << "<", "!", "-", "-", "a", "a" >>,
    << "\"", "a", "\\", "\"", "a", "\"" >>,
    << "<", "/", "a", "a", ">" >>,
    << "a", " ", "a", "a", "<" >> }

LexerTexts ==
  UNION { [1..n -> LexerChars] : n \in 0..MaxChars } \cup LexerScenarios

LexerInit ==
  /\ tokenizer = Tokenizer_new(VecPointerRef_new(<< >>))
  /\ parser = HtmlParser_new
  /\ history = History_new
  /\ status = "Running"
  /\ words = 0
  /\ xpath = NoEvaluation
  /\ \E vec \in LexerTexts, index \in 0..MaxChars :
       /\ index <= Len(vec)
       /\ lexer = [NoCall EXCEPT !.pointer = [VecPointer_new(vec) EXCEPT !.index = index],
                                 !.index_before = index]

\* a helper was called on the pointer and has returned
Called(helper, has_open_tag, returned) ==
  /\ lexer.helper = "None"
  /\ lexer' = [lexer EXCEPT !.helper = helper,
                            !.has_open_tag = has_open_tag,
                            !.pointer = returned.pointer,
                            !.symbol = returned.symbol]
  /\ UNCHANGED << tokenizer, parser, history, status, words, xpath >>

IsStartTag == Called("is_start_tag", FALSE, helpers_is_start_tag(lexer.pointer))
IsEndTag == Called("is_end_tag", FALSE, helpers_is_end_tag(lexer.pointer))
IsComment == Called("is_comment", FALSE, helpers_is_comment(lexer.pointer))
IsEndComment == Called("is_end_comment", FALSE, helpers_is_end_comment(lexer.pointer))
IsTagClose == Called("is_tag_close", FALSE, helpers_is_tag_close(lexer.pointer))
IsTagCloseAndEnd ==
  Called("is_tag_close_and_end", FALSE, helpers_is_tag_close_and_end(lexer.pointer))
IsAssignmentSign ==
  Called("is_assignment_sign", FALSE, helpers_is_assignment_sign(lexer.pointer))
IsLiteral ==
  \E has_open_tag \in BOOLEAN :
    Called("is_literal", has_open_tag, helpers_is_literal(lexer.pointer, has_open_tag))
IsIdentifier ==
  \E has_open_tag \in BOOLEAN :
    Called("is_identifier", has_open_tag, helpers_is_identifier(lexer.pointer, has_open_tag))
IsText ==
  \E has_open_tag \in BOOLEAN :
    Called("is_text", has_open_tag, helpers_is_text(lexer.pointer, has_open_tag))

LexerNext ==
  \/ IsStartTag \/ IsEndTag \/ IsComment \/ IsEndComment \/ IsTagClose
  \/ IsTagCloseAndEnd \/ IsAssignmentSign \/ IsLiteral \/ IsIdentifier \/ IsText

LexerSpec == LexerInit /\ [][LexerNext]_vars

\* a helper has returned None, or false
returned_nothing == lexer.helper # "None" /\ lexer.symbol.type \in {"None", "false"}

\* the helpers other than is_comment leave the pointer where it was when
\* they find nothing
OtherHelpersKeepPointer ==
  returned_nothing /\ lexer.helper # "is_comment" =>
    lexer.pointer.index = lexer.index_before

\* C25: a helper of the old lexer that returns None or false leaves the
\* pointer where it was, for every text and every position of the pointer,
\* a comment that is opened and never closed included
C25_PointerKept ==
  returned_nothing => lexer.pointer.index = lexer.index_before

\* ------------------------------------------------ adoption agency claims
\* the tree builder as it was when the token just processed arrived: the
\* arena only grows, so the nodes of then have their names in it
builder_before ==
  [parser EXCEPT !.open_elements = history.stack_before,
                 !.active_formatting_elements = history.formatting_before,
                 !.res = "Ok"]

\* the token just processed was the end tag of a formatting element,
\* handled by the rules of InBody
formatting_end_tag ==
  /\ history.last_token.type = "EndTag"
  /\ history.last_token.tag_name \in FormattingNames
  /\ history.from = "InBody"

\* the formatting element the adoption agency finds for the tag, or NoNode
formatting_element_before ==
  IF formatting_elements_named(builder_before, history.last_token.tag_name) = << >>
  THEN NoNode
  ELSE formatting_elements_named(builder_before, history.last_token.tag_name)[1].node_id

\* the adoption agency ran for an end tag and came to a formatting element
\* that is open, in scope, and has no furthest block
no_furthest_block ==
  /\ formatting_end_tag
  /\ current_node_name(builder_before) # history.last_token.tag_name
  /\ formatting_element_before # NoNode
  /\ contains(history.stack_before, formatting_element_before)
  /\ has_an_element_in_scope(builder_before, history.last_token.tag_name)
  /\ furthest_blocks(builder_before, formatting_element_before) = << >>

\* C26: when the formatting element has no furthest block, the algorithm
\* returns with the stack popped down to and including the formatting
\* element, whatever is above it, and the element is no longer in the list
\* of active formatting elements
C26_PoppedToFormattingElement ==
  no_furthest_block =>
    /\ status \in {"Running", "Ok"}
    /\ parser.open_elements =
         SubSeq(history.stack_before, 1,
                position(history.stack_before, formatting_element_before) - 1)
    /\ \A i \in DOMAIN parser.active_formatting_elements :
         parser.active_formatting_elements[i] = Marker
         \/ parser.active_formatting_elements[i].node_id # formatting_element_before

\* the algorithm always comes to the case with the formatting element
\* below the current node, and never returns from it
NoFurthestBlockHangs == no_furthest_block => status = "Hang"

\* the end tag just processed found the formatting element it names as
\* the current node, and the tree builder went on
closed_current_formatting_element ==
  /\ formatting_end_tag
  /\ status \in {"Running", "Ok"}
  /\ current_node_name(builder_before) = history.last_token.tag_name

\* C27: an end tag that closes a formatting element that is the current
\* node leaves the element neither on the stack of open elements nor in
\* the list of active formatting elements: the shortcut that only pops the
\* current node is not taken for an element that is in the list
C27_ClosedElementLeavesList ==
  closed_current_formatting_element =>
    /\ ~contains(parser.open_elements, current_node_id(builder_before))
    /\ \A i \in DOMAIN parser.active_formatting_elements :
         parser.active_formatting_elements[i] = Marker
         \/ parser.active_formatting_elements[i].node_id # current_node_id(builder_before)

\* the shortcut is what the code does for such an end tag: the current
\* node is popped and the list is left as it was
ShortcutTaken ==
  closed_current_formatting_element =>
    /\ parser.open_elements =
         SubSeq(history.stack_before, 1, Len(history.stack_before) - 1)
    /\ parser.active_formatting_elements = history.formatting_before

\* an a start tag was processed by the rules of InBody and the tree
\* builder went on
a_start_tag_processed ==
  /\ history.last_token.type = "StartTag"
  /\ history.last_token.tag_name = "a"
  /\ history.from = "InBody"
  /\ status \in {"Running", "Ok"}

\* the entries for a elements after the last marker of the list
a_entries == formatting_elements_named(parser, "a")

\* C28: after an a start tag is processed in InBody the list of active
\* formatting elements has, after its last marker, exactly one entry for
\* an a element, that of the element just inserted
C28_OneAnchorEntry ==
  a_start_tag_processed =>
    /\ Len(a_entries) = 1
    /\ a_entries[1].node_id = current_node_id(parser)

\* an a start tag processed while the list had no entry for an a element
\* after its last marker
first_anchor ==
  /\ a_start_tag_processed
  /\ formatting_elements_named(builder_before, "a") = << >>

\* without an earlier entry the list gets the one entry of the new element
FirstAnchorEntry ==
  first_anchor =>
    /\ Len(a_entries) = 1
    /\ a_entries[1].node_id = current_node_id(parser)

\* ------------------------------------------------------- InBody claims
\* the start tags that close an open p element before they are inserted
ClosesParagraph == {"div", "form", "li"} \cup Headings

\* the p element nearest the top of the stack as it was before the token
paragraph_before ==
  history.stack_before[
    CHOOSE i \in DOMAIN history.stack_before :
      /\ name_of(parser, history.stack_before[i]) = "p"
      /\ \A j \in (i + 1)..Len(history.stack_before) :
           name_of(parser, history.stack_before[j]) # "p"]

RECURSIVE is_inside(_, _)
\* the node is below the element in the tree
is_inside(node_id, element_id) ==
  /\ parser.arena[node_id].parent # NoNode
  /\ \/ parser.arena[node_id].parent = element_id
     \/ is_inside(parser.arena[node_id].parent, element_id)

\* a start tag that closes a p element was processed in InBody while a p
\* element was in button scope, and its element was inserted
block_inserted_with_paragraph_open ==
  /\ history.last_token.type = "StartTag"
  /\ history.last_token.tag_name \in ClosesParagraph
  /\ history.from = "InBody"
  /\ status \in {"Running", "Ok"}
  /\ has_an_element_in_button_scope(builder_before, "p")
  /\ current_node_name(parser) = history.last_token.tag_name
  /\ ~contains(history.stack_before, current_node_id(parser))

\* C29: a start tag that must close an open p element, processed in
\* InBody with a p element in button scope, has that p element and all
\* above it popped before its own element is inserted, which is therefore
\* not inside the p element
C29_ParagraphClosed ==
  block_inserted_with_paragraph_open =>
    /\ ~contains(parser.open_elements, paragraph_before)
    /\ ~is_inside(current_node_id(parser), paragraph_before)

\* the same with the p element as the current node, or with only elements
\* whose end tags are implied above it
paragraph_on_top ==
  /\ block_inserted_with_paragraph_open
  /\ current_node_name(generate_implied_end_tags(builder_before, "p")) = "p"

ParagraphOnTopClosed ==
  paragraph_on_top =>
    /\ ~contains(parser.open_elements, paragraph_before)
    /\ ~is_inside(current_node_id(parser), paragraph_before)

\* a body start tag was processed by the rules of InBody, with a body
\* element second on the stack and no template element open
body_start_tag_in_body ==
  /\ history.last_token.type = "StartTag"
  /\ history.last_token.tag_name = "body"
  /\ history.from = "InBody"
  /\ status \in {"Running", "Ok"}
  /\ Len(history.stack_before) >= 2
  /\ name_of(parser, history.stack_before[2]) = "body"
  /\ ~open_elements_has_element(builder_before, "template")

\* the names of the attributes the body element has
body_attribute_names ==
  { attributes_arena(parser, history.stack_before[2])[i].name :
      i \in DOMAIN attributes_arena(parser, history.stack_before[2]) }

\* C30: a body start tag processed in InBody is a parse error; the body
\* element gets each attribute of the token that it did not have, the
\* frameset-ok flag is cleared, and the insertion mode stays InBody
C30_BodyStartMerged ==
  body_start_tag_in_body =>
    /\ errors_raised > 0
    /\ \A i \in DOMAIN history.last_token.attributes :
         history.last_token.attributes[i].name \in body_attribute_names
    /\ ~parser.frameset_ok
    /\ parser.insertion_mode = "InBody"

\* what the code does with the tag: no error is raised, the body element
\* in scope, and the insertion mode becomes AfterBody, the stack staying
\* as it was
BodyStartLeavesBody ==
  body_start_tag_in_body =>
    /\ errors_raised = 0
    /\ parser.insertion_mode = "AfterBody"
    /\ parser.open_elements = history.stack_before

\* the tag had an attribute and the body element was left without it
body_attribute_dropped ==
  /\ body_start_tag_in_body
  /\ history.last_token.attributes # << >>
  /\ body_attribute_names = {}

\* the end tags that have an arm of their own in the rules of InBody
OwnEndTagNames ==
  {"template", "body", "html", "form", "p", "li", "dd", "dt", "sarcasm",
   "applet", "marquee", "object", "nobr", "br"}
  \cup BlockEndNames \cup Headings \cup FormattingNames

\* an end tag without an arm of its own was processed by the rules of
\* InBody
other_end_tag_processed ==
  /\ history.fresh
  /\ history.last_token.type = "EndTag"
  /\ history.last_token.tag_name \notin OwnEndTagNames
  /\ history.from = "InBody"
  /\ history.stack_before # << >>

\* the places of the stack, as it was, whose node is named as the tag or
\* is in the special category
stops_of_walk ==
  { i \in DOMAIN history.stack_before :
      \/ name_of(parser, history.stack_before[i]) = history.last_token.tag_name
      \/ name_of(parser, history.stack_before[i]) \in SPECIAL_ELEMENTS }

\* the place where the walk from the top ends, 0 when it ends nowhere
end_of_walk ==
  IF stops_of_walk = {} THEN 0
  ELSE CHOOSE i \in stops_of_walk : \A j \in stops_of_walk : j <= i

\* the walk ended at a node named as the tag
walk_found_match ==
  /\ other_end_tag_processed
  /\ end_of_walk # 0
  /\ name_of(parser, history.stack_before[end_of_walk]) = history.last_token.tag_name

\* C31: an end tag without an arm of its own walks the stack from the top:
\* at the first node named as the tag the stack is popped up to and
\* including that node; when a special node comes first the stack stays as
\* it was; the walk ends in one of the two ways
C31_OtherEndTagWalk ==
  other_end_tag_processed =>
    /\ status \in {"Running", "Ok"}
    /\ end_of_walk # 0
    /\ parser.open_elements =
         IF walk_found_match
         THEN SubSeq(history.stack_before, 1, end_of_walk - 1)
         ELSE history.stack_before

\* the walk went below the current node and found the node named as the
\* tag
match_below_current_node ==
  /\ walk_found_match
  /\ end_of_walk < Len(history.stack_before)
  /\ status = "Running"

\* ------------------------------------------------------ totality claims
\* C32: whatever the insertion mode and the token, the tree builder
\* completes the step with a result, a parse error possibly, and does not
\* abort
C32_EveryTokenHandled ==
  history.last_token # NoToken => status \in {"Running", "Ok", "Err"}

\* the tree builder aborted on a U+0000 character token in InBody
null_in_body_aborts ==
  /\ history.from = "InBody"
  /\ history.last_token = Character("NULL")
  /\ status = "Panic"

\* the tree builder aborted on a DOCTYPE token in InBody
doctype_in_body_aborts ==
  /\ history.from = "InBody"
  /\ history.last_token.type = "DocType"
  /\ status = "Panic"

\* C33: no state the tokenizer comes to from Data lacks a handler in
\* Tokenizer::step
C33_EveryStateHandled == tokenizer.state \notin TodoStates

\* a step was asked of a state without a handler and aborted the run
step_without_handler ==
  /\ history.state_before \in TodoStates
  /\ status = "Panic"

\* the tokenizer came to the start of a hexadecimal character reference
hexadecimal_reference_started ==
  tokenizer.state = "HexadecimalCharacterReferenceStart"

\* ---------------------------------------------------- termination claims
\* C34: parse terminates on every text: no step of the tokenizer, with the
\* states it reconsumes in, and no token processed by the tree builder,
\* with the modes that reprocess it, goes on for ever
C34_ParseTerminates == status # "Hang"

\* a run that does not terminate comes from the adoption agency alone: the
\* token that never finishes is a tag of a formatting element handled by the
\* rules of InBody
HangsOnlyInAdoptionAgency ==
  status = "Hang" =>
    /\ history.last_token.type \in {"StartTag", "EndTag"}
    /\ history.last_token.tag_name \in FormattingNames
    /\ contains(history.stack_before, formatting_element_before)
    /\ current_node_id(builder_before) # formatting_element_before

\* ------------------------------------------------ the tokenizer by itself
\* A Tokenizer as Tokenizer::new leaves it, no error handler set, stepped
\* while it is not terminated on a text that is settled from the start.
InvalidFirstCharacter == << "<", "1", "a", ">" >>

TokenizerTexts == Scenarios \cup {InvalidFirstCharacter}

TokenizerInit ==
  /\ \E text \in TokenizerTexts :
       tokenizer = Tokenizer_new(VecPointerRef_new(text))
  /\ words = MaxWords
  /\ parser = HtmlParser_new
  /\ history = History_new
  /\ status = "Running"
  /\ xpath = NoEvaluation
  /\ lexer = NoCall

TokenizerNext == Step

TokenizerSpec == TokenizerInit /\ [][TokenizerNext]_vars

end_of_file_emitted == history.eof_emitted

\* ------------------------------------------------------ attribute claims
\* the attributes of the tag token the tokenizer is building
attributes_of(t) ==
  IF t.tag_token = NoToken THEN << >> ELSE t.tag_token.attributes

\* a step of the tokenizer inside one tag that started no attribute: the
\* tag token has as many attributes after it as before, and at least one
step_in_started_attribute ==
  /\ Len(attributes_of(tokenizer)) > 0
  /\ Len(attributes_of(tokenizer')) = Len(attributes_of(tokenizer))

\* C36: a step that appends a character to an attribute name or value
\* leaves every attribute but the one most recently started as it was.
C36_AppendedToLastAttribute ==
  [][step_in_started_attribute =>
       \A i \in 1..(Len(attributes_of(tokenizer)) - 1) :
         attributes_of(tokenizer')[i] = attributes_of(tokenizer)[i]]_vars

\* ------------------------------------------- active formatting list claims
\* the token just processed was a character handled by the rules of InBody,
\* which begin with reconstruct_the_active_formatting_elements
character_in_body ==
  /\ history.fresh
  /\ history.from = "InBody"
  /\ history.last_token.type = "Character"
  /\ history.last_token.c # "NULL"

\* the tree builder as that call left it
reconstructed == reconstruct_the_active_formatting_elements(builder_before)

\* the tokens of the entries of a list, a marker standing for itself
entry_tokens(list) ==
  [i \in 1..Len(list) |-> IF list[i] = Marker THEN Marker ELSE list[i].token]

markers_of(list) == {i \in 1..Len(list) : list[i] = Marker}

\* the entries of a list before its last marker
before_last_marker(list) ==
  SubSeq(list, 1, (CHOOSE i \in markers_of(list) :
                     \A j \in markers_of(list) : j <= i) - 1)

\* the token just processed was the end tag of a template that was open,
\* and the list of active formatting elements had a marker: the rules of
\* InHead have popped the template and cleared the list
template_end_processed ==
  /\ history.fresh
  /\ status = "Running"
  /\ history.last_token.type = "EndTag"
  /\ history.last_token.tag_name = "template"
  /\ \E i \in 1..Len(history.stack_before) :
       name_of(parser, history.stack_before[i]) = "template"
  /\ markers_of(history.formatting_before) # {}

\* C38: clearing the list of active formatting elements up to the last
\* marker removes the last marker and the entries after it, and nothing else.
C38_ClearedToLastMarker ==
  template_end_processed =>
    parser.active_formatting_elements
      = before_last_marker(history.formatting_before)

\* an a start tag was processed and the tree builder went on: the a element
\* it inserted is the current node and was pushed onto the list
anchor_pushed ==
  /\ history.fresh
  /\ status = "Running"
  /\ history.last_token.type = "StartTag"
  /\ history.last_token.tag_name = "a"

\* the entries after the last marker for elements with the tag name and
\* the attributes of the current node
identical_entries ==
  matching_elements(parser, active_formatting_elements_until_marker(parser),
                    current_node_id(parser))

\* C39: after a push onto the list of active formatting elements at most
\* three entries after the last marker are for identical elements.
C39_AtMostThreeIdentical == anchor_pushed => Len(identical_entries) <= 3

\* ------------------------------------------------------ InTemplate claims
\* the end-of-file token was just processed, found in InTemplate
end_of_file_in_template ==
  /\ history.fresh
  /\ history.last_token.type = "EndOfFile"
  /\ history.from = "InTemplate"

\* the positions of the template elements on the stack the token found
templates_before ==
  {i \in 1..Len(history.stack_before) :
     name_of(parser, history.stack_before[i]) = "template"}

====
